---- MODULE Spec2Model ----
(***************************************************************************)
(* A model of src/app.py: the cursor-paginated traversal of an             *)
(* organisation's repositories (get_repository_technologies), the          *)
(* per-repository classification with its detectors, the running           *)
(* statistics and the assembly of the output document.                     *)
(*                                                                         *)
(* Strings the code inspects (entry names, blob bodies) are sequences of   *)
(* one-character strings, so that lower(), endswith() and `in` are         *)
(* computed.  Labels the code only emits and compares for equality are     *)
(* TLA+ strings.                                                           *)
(***************************************************************************)
EXTENDS Integers, Sequences, FiniteSets, TLC

(***************************************************************************)
(* Bounds of the model.                                                    *)
(***************************************************************************)
\* the organisation holds at most this many repositories
MaxRepos == 3
\* the page size handed to get_repository_technologies (batch_size)
BatchSize == 2
\* the clock advances by at most this many ticks while the report is built
MaxDrift == 1
\* the interpreter's string-hash seeds range over 0..MaxSeed
MaxSeed == 1
\* clock ticks per day
TicksPerDay == 2

(***************************************************************************)
(* Python values.                                                          *)
(***************************************************************************)
\* None where a string is expected: no sequence of characters equals it
NoneStr == <<"None">>
\* None where a date is expected (dates are ticks since the epoch, >= 0)
NoDate == -1
\* cursor = None
NoCursor == -1

Min(a, b) == IF a <= b THEN a ELSE b

UpperToLower ==
    [A |-> "a", B |-> "b", C |-> "c", D |-> "d", E |-> "e", F |-> "f",
     G |-> "g", H |-> "h", I |-> "i", J |-> "j", K |-> "k", L |-> "l",
     M |-> "m", N |-> "n", O |-> "o", P |-> "p", Q |-> "q", R |-> "r",
     S |-> "s", T |-> "t", U |-> "u", V |-> "v", W |-> "w", X |-> "x",
     Y |-> "y", Z |-> "z"]

\* str.lower()
Lower(s) ==
    [k \in 1..Len(s) |-> IF s[k] \in DOMAIN UpperToLower THEN UpperToLower[s[k]] ELSE s[k]]

\* s.endswith(suf)
EndsWith(s, suf) ==
    /\ Len(s) >= Len(suf)
    /\ SubSeq(s, Len(s) - Len(suf) + 1, Len(s)) = suf

\* s.startswith(pre)
StartsWith(s, pre) ==
    /\ Len(s) >= Len(pre)
    /\ SubSeq(s, 1, Len(pre)) = pre

\* sub in s
Contains(s, sub) ==
    \E k \in 0..(Len(s) - Len(sub)) : SubSeq(s, k + 1, k + Len(sub)) = sub

\* the literals of check_infrastructure_files and of the classifier
S_tf == <<".", "t", "f">>
S_terraform == <<"t", "e", "r", "r", "a", "f", "o", "r", "m">>
S_yaml == <<".", "y", "a", "m", "l">>
S_yml == <<".", "y", "m", "l">>
S_json == <<".", "j", "s", "o", "n">>
S_awstemplate == <<"a", "w", "s", "t", "e", "m", "p", "l", "a", "t", "e">>
S_cloudformation == <<"c", "l", "o", "u", "d", "f", "o", "r", "m", "a", "t", "i", "o", "n">>
S_kind_deployment == <<"k", "i", "n", "d", ":", " ", "d", "e", "p", "l", "o", "y", "m", "e", "n", "t">>
S_kind_service == <<"k", "i", "n", "d", ":", " ", "s", "e", "r", "v", "i", "c", "e">>
S_ansible == <<"a", "n", "s", "i", "b", "l", "e">>
S_playbook == <<"p", "l", "a", "y", "b", "o", "o", "k">>
S_readme_md == <<"r", "e", "a", "d", "m", "e", ".", "m", "d">>
S_makefile == <<"m", "a", "k", "e", "f", "i", "l", "e">>
S_dot_github == <<".", "g", "i", "t", "h", "u", "b">>
S_workflows == <<"w", "o", "r", "k", "f", "l", "o", "w", "s">>
S_ci == <<"c", "i">>
S_pipeline_yml == <<"p", "i", "p", "e", "l", "i", "n", "e", ".", "y", "m", "l">>
S_confluence == <<"c", "o", "n", "f", "l", "u", "e", "n", "c", "e">>
S_mkdocs == <<"m", "k", "d", "o", "c", "s">>
S_sphinx == <<"s", "p", "h", "i", "n", "x">>
S_readthedocs == <<"r", "e", "a", "d", "t", "h", "e", "d", "o", "c", "s">>

(***************************************************************************)
(* The tree snapshot the query returns.  `object` of an entry is null, or  *)
(* a dictionary holding "text" (a Blob), "entries" (a Tree) or nothing (a  *)
(* Tree at the third level, below which the query asks no further).        *)
(***************************************************************************)
NullObj == [null |-> TRUE, has_text |-> FALSE, text |-> NoneStr,
            has_entries |-> FALSE, entries |-> <<>>]
BlobObj(t) == [null |-> FALSE, has_text |-> TRUE, text |-> t,
               has_entries |-> FALSE, entries |-> <<>>]
TreeObj(es) == [null |-> FALSE, has_text |-> FALSE, text |-> NoneStr,
                has_entries |-> TRUE, entries |-> es]

Blob(n, t) == [name |-> n, type |-> "Blob", object |-> BlobObj(t)]
Tree(n, es) == [name |-> n, type |-> "Tree", object |-> TreeObj(es)]

\* entry.get("object") and entry["object"].get("text")
HasText(entry) ==
    /\ ~entry.object.null
    /\ (entry.object.has_text \/ entry.object.has_entries)
    /\ entry.object.has_text
    /\ entry.object.text # NoneStr
    /\ entry.object.text # <<>>

\* entry.get("object") and entry["object"].get("entries")
HasEntries(entry) ==
    /\ ~entry.object.null
    /\ entry.object.has_entries
    /\ entry.object.entries # <<>>

\* entry["object"]["text"] raises (TypeError on null, KeyError on a Tree)
TextRaises(entry) == entry.object.null \/ ~entry.object.has_text

\* entry["object"]["entries"] raises (TypeError on null, KeyError on a Blob)
EntriesRaises(entry) == entry.object.null \/ ~entry.object.has_entries

(***************************************************************************)
(* list(set(xs)): the order in which a set of strings is iterated follows  *)
(* the strings' hashes, which the interpreter salts with a per-process     *)
(* seed.  StrHash stands for that salted hash on the labels.               *)
(***************************************************************************)
Labels ==
    <<"Terraform", "CloudFormation", "Kubernetes", "Ansible", "Docker",
      "AWS", "GCP", "Azure",
      "GitHub Actions", "Jenkins", "CircleCI", "Travis CI", "Concourse",
      "Documentation Directory", "Jekyll", "Sphinx", "MkDocs", "Docusaurus",
      "Markdown Documentation",
      "Test Directory", "Test Files", "Testing Framework",
      "pip", "poetry", "setuptools", "pipenv", "conda",
      "npm", "yarn", "pnpm",
      "react", "vue", "angular", "svelte", "express", "nest", "jquery",
      "next.js", "gatsby">>

LabelCode(l) == CHOOSE k \in 1..Len(Labels) : Labels[k] = l

StrHash(l, seed) == (LabelCode(l) * (30 * seed + 1)) % 32

RECURSIVE SetToList(_, _)
SetToList(S, seed) ==
    IF S = {} THEN <<>>
    ELSE LET x == CHOOSE x \in S : \A y \in S : StrHash(x, seed) <= StrHash(y, seed)
         IN  <<x>> \o SetToList(S \ {x}, seed)

Range(s) == {s[k] : k \in 1..Len(s)}

RECURSIVE Flatten(_)
Flatten(ss) == IF ss = <<>> THEN <<>> ELSE Head(ss) \o Flatten(Tail(ss))

(***************************************************************************)
(* check_infrastructure_files                                              *)
(***************************************************************************)
\* what one pass of the loop body appends to iac
InfraEntryLabels(entry) ==
    IF EndsWith(entry.name, S_tf) \/ entry.name = S_terraform
    THEN <<"Terraform">>
    ELSE IF EndsWith(entry.name, S_yaml) \/ EndsWith(entry.name, S_yml)
            \/ EndsWith(entry.name, S_json)
    THEN IF HasText(entry)
            /\ (Contains(Lower(entry.object.text), S_awstemplate)
                \/ Contains(Lower(entry.object.text), S_cloudformation))
         THEN <<"CloudFormation">>
         ELSE <<>>
    ELSE IF EndsWith(entry.name, S_yaml) \/ EndsWith(entry.name, S_yml)
    THEN IF HasText(entry)
            /\ (Contains(Lower(entry.object.text), S_kind_deployment)
                \/ Contains(Lower(entry.object.text), S_kind_service))
         THEN <<"Kubernetes">>
         ELSE <<>>
    ELSE IF entry.name = S_ansible
            \/ (EndsWith(entry.name, S_yml) /\ Contains(Lower(entry.name), S_playbook))
    THEN <<"Ansible">>
    ELSE <<>>

\* entries is None when the repository has no tree (root.null)
check_infrastructure_files(root, seed) ==
    IF root.null THEN <<>>
    ELSE SetToList(
            Range(Flatten([k \in 1..Len(root.entries) |-> InfraEntryLabels(root.entries[k])])),
            seed)

(***************************************************************************)
(* check_cloud_providers                                                   *)
(***************************************************************************)
S_template_yaml == <<"t", "e", "m", "p", "l", "a", "t", "e", ".", "y", "a", "m", "l">>
S_cdk_json == <<"c", "d", "k", ".", "j", "s", "o", "n">>
S_provider_aws == <<"p", "r", "o", "v", "i", "d", "e", "r", " ", "\"", "a", "w", "s", "\"">>
S_gcp == <<"g", "c", "p">>
S_bicep == <<".", "b", "i", "c", "e", "p">>
S_provider_google == <<"p", "r", "o", "v", "i", "d", "e", "r", " ", "\"", "g", "o", "o", "g", "l", "e", "\"">>
S_microsoft_azure == <<"m", "i", "c", "r", "o", "s", "o", "f", "t", ".", "a", "z", "u", "r", "e">>
S_dot_azure_dot == <<".", "a", "z", "u", "r", "e", ".">>
S_aws == <<"a", "w", "s">>
S_amazon_web_services == <<"a", "m", "a", "z", "o", "n", " ", "w", "e", "b", " ", "s", "e", "r", "v", "i", "c", "e", "s">>
S_boto3 == <<"b", "o", "t", "o", "3">>
S_google_cloud == <<"g", "o", "o", "g", "l", "e", " ", "c", "l", "o", "u", "d">>
S_gcloud == <<"g", "c", "l", "o", "u", "d">>
S_google_dot_cloud == <<"g", "o", "o", "g", "l", "e", ".", "c", "l", "o", "u", "d">>
S_azure == <<"a", "z", "u", "r", "e">>
S_microsoft_azure_sp == <<"m", "i", "c", "r", "o", "s", "o", "f", "t", " ", "a", "z", "u", "r", "e">>
S_azure_cli == <<"a", "z", "u", "r", "e", " ", "c", "l", "i">>

\* readme_content: the text of the last top-level entry named readme.md
\* (in any case), None when there is none or its text is null
ReadmeContent(root) ==
    IF root.null THEN NoneStr
    ELSE LET idx == {k \in 1..Len(root.entries) :
                        Lower(root.entries[k].name) = S_readme_md}
         IN  IF idx = {} THEN NoneStr
             ELSE LET last == CHOOSE k \in idx : \A m \in idx : m <= k
                  IN  root.entries[last].object.text

\* what one pass of the loop body appends to cloud
CloudEntryLabels(entry) ==
    IF entry.name \in {S_template_yaml, S_cloudformation, S_cdk_json}
    THEN <<"AWS">>
    ELSE IF EndsWith(entry.name, S_tf)
    THEN IF HasText(entry) /\ Contains(Lower(entry.object.text), S_provider_aws)
         THEN <<"AWS">>
         ELSE <<>>
    ELSE IF entry.name = S_gcp \/ EndsWith(entry.name, S_bicep)
    THEN <<"GCP">>
    ELSE IF EndsWith(entry.name, S_tf)
    THEN IF HasText(entry) /\ Contains(Lower(entry.object.text), S_provider_google)
         THEN <<"GCP">>
         ELSE <<>>
    ELSE IF EndsWith(entry.name, S_json) \/ EndsWith(entry.name, S_bicep)
    THEN IF HasText(entry)
            /\ (Contains(Lower(entry.object.text), S_microsoft_azure)
                \/ Contains(Lower(entry.object.text), S_dot_azure_dot))
         THEN <<"Azure">>
         ELSE <<>>
    ELSE <<>>

\* any(term in readme_lower for term in terms)
AnyIn(terms, text) == \E t \in terms : Contains(text, t)

\* what the README block appends to cloud
CloudReadmeLabels(readme_content) ==
    IF readme_content = NoneStr \/ readme_content = <<>> THEN <<>>
    ELSE LET readme_lower == Lower(readme_content) IN
         (IF AnyIn({S_aws, S_amazon_web_services, S_cloudformation, S_boto3}, readme_lower)
          THEN <<"AWS">> ELSE <<>>)
         \o (IF AnyIn({S_gcp, S_google_cloud, S_gcloud, S_google_dot_cloud}, readme_lower)
             THEN <<"GCP">> ELSE <<>>)
         \o (IF AnyIn({S_azure, S_microsoft_azure_sp, S_azure_cli}, readme_lower)
             THEN <<"Azure">> ELSE <<>>)

check_cloud_providers(root, readme_content, seed) ==
    IF root.null THEN <<>>
    ELSE SetToList(
            Range(Flatten([k \in 1..Len(root.entries) |-> CloudEntryLabels(root.entries[k])])
                  \o CloudReadmeLabels(readme_content)),
            seed)

(***************************************************************************)
(* check_ci_cd, check_documentation, check_testing                         *)
(***************************************************************************)
S_Jenkinsfile == <<"J", "e", "n", "k", "i", "n", "s", "f", "i", "l", "e">>
S_jenkins == <<"j", "e", "n", "k", "i", "n", "s">>
S_circleci == <<".", "c", "i", "r", "c", "l", "e", "c", "i">>
S_travis_yml == <<".", "t", "r", "a", "v", "i", "s", ".", "y", "m", "l">>
S_docs == <<"d", "o", "c", "s">>
S_dot_docs == <<".", "d", "o", "c", "s">>
S_documentation == <<"d", "o", "c", "u", "m", "e", "n", "t", "a", "t", "i", "o", "n">>
S_guides == <<"g", "u", "i", "d", "e", "s">>
S_config_yml == <<"_", "c", "o", "n", "f", "i", "g", ".", "y", "m", "l">>
S_conf_py == <<"c", "o", "n", "f", ".", "p", "y">>
S_mkdocs_yml == <<"m", "k", "d", "o", "c", "s", ".", "y", "m", "l">>
S_docusaurus_config_js == <<"d", "o", "c", "u", "s", "a", "u", "r", "u", "s", ".", "c", "o", "n", "f", "i", "g", ".", "j", "s">>
S_md == <<".", "m", "d">>
S_tests == <<"t", "e", "s", "t", "s">>
S_test == <<"t", "e", "s", "t">>
S_spec == <<"s", "p", "e", "c">>
S_test_ == <<"t", "e", "s", "t", "_">>
S_test_py == <<"_", "t", "e", "s", "t", ".", "p", "y">>
S_package_json == <<"p", "a", "c", "k", "a", "g", "e", ".", "j", "s", "o", "n">>
S_requirements_txt == <<"r", "e", "q", "u", "i", "r", "e", "m", "e", "n", "t", "s", ".", "t", "x", "t">>
S_setup_py == <<"s", "e", "t", "u", "p", ".", "p", "y">>
S_pytest == <<"p", "y", "t", "e", "s", "t">>
S_unittest == <<"u", "n", "i", "t", "t", "e", "s", "t">>
S_jest == <<"j", "e", "s", "t">>
S_mocha == <<"m", "o", "c", "h", "a">>
S_cypress == <<"c", "y", "p", "r", "e", "s", "s">>
S_junit == <<"j", "u", "n", "i", "t">>

\* what one pass of the loop body of check_ci_cd appends to ci_cd
CiCdEntryLabels(entry) ==
    IF entry.name = S_dot_github
    THEN IF HasEntries(entry)
            /\ \E k \in 1..Len(entry.object.entries) :
                  entry.object.entries[k].name = S_workflows
         THEN <<"GitHub Actions">>
         ELSE <<>>
    ELSE IF entry.name = S_Jenkinsfile \/ entry.name = S_jenkins
    THEN <<"Jenkins">>
    ELSE IF entry.name = S_circleci
    THEN <<"CircleCI">>
    ELSE IF entry.name = S_travis_yml
    THEN <<"Travis CI">>
    ELSE IF entry.name = S_ci
    THEN IF HasEntries(entry)
            /\ \E k \in 1..Len(entry.object.entries) :
                  Contains(entry.object.entries[k].name, S_pipeline_yml)
         THEN <<"Concourse">>
         ELSE <<>>
    ELSE <<>>

check_ci_cd(root, seed) ==
    IF root.null THEN <<>>
    ELSE SetToList(
            Range(Flatten([k \in 1..Len(root.entries) |-> CiCdEntryLabels(root.entries[k])])),
            seed)

\* doc_tools
DocTool(name) ==
    IF name = S_config_yml THEN <<"Jekyll">>
    ELSE IF name = S_conf_py THEN <<"Sphinx">>
    ELSE IF name = S_mkdocs_yml THEN <<"MkDocs">>
    ELSE IF name = S_docusaurus_config_js THEN <<"Docusaurus">>
    ELSE <<>>

\* what one pass of the loop body of check_documentation appends to docs;
\* its three tests are independent `if`s
DocEntryLabels(entry) ==
    (IF entry.name \in {S_docs, S_dot_docs, S_documentation, S_guides}
     THEN <<"Documentation Directory">> ELSE <<>>)
    \o DocTool(entry.name)
    \o (IF /\ entry.type = "Tree"
           /\ ~entry.object.null
           /\ \E k \in 1..Len(entry.object.entries) :
                 /\ EndsWith(entry.object.entries[k].name, S_md)
                 /\ Lower(entry.object.entries[k].name) # S_readme_md
        THEN <<"Markdown Documentation">> ELSE <<>>)

check_documentation(root, seed) ==
    IF root.null THEN <<>>
    ELSE SetToList(
            Range(Flatten([k \in 1..Len(root.entries) |-> DocEntryLabels(root.entries[k])])),
            seed)

\* what one pass of the loop body of check_testing appends to tests
TestEntryLabels(entry) ==
    (IF entry.name \in {S_tests, S_test, S_spec}
     THEN <<"Test Directory">> ELSE <<>>)
    \o (IF StartsWith(entry.name, S_test_) \/ EndsWith(entry.name, S_test_py)
        THEN <<"Test Files">> ELSE <<>>)
    \o (IF /\ entry.name \in {S_package_json, S_requirements_txt, S_setup_py}
           /\ HasText(entry)
           /\ AnyIn({S_pytest, S_unittest, S_jest, S_mocha, S_cypress, S_junit},
                    Lower(entry.object.text))
        THEN <<"Testing Framework">> ELSE <<>>)

check_testing(root, seed) ==
    IF root.null THEN <<>>
    ELSE SetToList(
            Range(Flatten([k \in 1..Len(root.entries) |-> TestEntryLabels(root.entries[k])])),
            seed)

(***************************************************************************)
(* Text: splitlines(), strip(), split(sep)[0].                             *)
(***************************************************************************)
Whitespace == {" ", "\t", "\n", "\r"}

\* the position of the first occurrence of sub in s, 0 when there is none
IndexOf(s, sub) ==
    LET at == {k \in 1..(Len(s) - Len(sub) + 1) : SubSeq(s, k, k + Len(sub) - 1) = sub}
    IN  IF at = {} THEN 0 ELSE CHOOSE k \in at : \A m \in at : k <= m

\* s.split(sep)[0]
Before(s, sep) ==
    IF IndexOf(s, sep) = 0 THEN s ELSE SubSeq(s, 1, IndexOf(s, sep) - 1)

\* s.strip()
Strip(s) ==
    LET inked == {k \in 1..Len(s) : s[k] \notin Whitespace}
    IN  IF inked = {} THEN <<>>
        ELSE SubSeq(s, CHOOSE k \in inked : \A m \in inked : k <= m,
                       CHOOSE k \in inked : \A m \in inked : m <= k)

\* s.splitlines(): a final line break opens no line
RECURSIVE SplitLines(_)
SplitLines(s) ==
    IF s = <<>> THEN <<>>
    ELSE LET nl == IndexOf(s, <<"\n">>)
         IN  IF nl = 0 THEN <<s>>
             ELSE <<SubSeq(s, 1, nl - 1)>> \o SplitLines(SubSeq(s, nl + 1, Len(s)))

\* s.split(sep), for a one-character separator
RECURSIVE SplitOn(_, _)
SplitOn(s, sep) ==
    LET at == IndexOf(s, <<sep>>)
    IN  IF at = 0 THEN <<s>>
        ELSE <<SubSeq(s, 1, at - 1)>> \o SplitOn(SubSeq(s, at + 1, Len(s)), sep)

\* list(set(names)) for names that are texts: the order follows a salted hash
NameHash(s, seed) == (Len(s) * (30 * seed + 1)) % 32

RECURSIVE NameSetToList(_, _)
NameSetToList(S, seed) ==
    IF S = {} THEN <<>>
    ELSE LET x == CHOOSE x \in S : \A y \in S : NameHash(x, seed) <= NameHash(y, seed)
         IN  <<x>> \o NameSetToList(S \ {x}, seed)

(***************************************************************************)
(* check_python_dependencies                                               *)
(***************************************************************************)
S_txt == <<".", "t", "x", "t">>
S_hash == <<"#">>
S_eqeq == <<"=", "=">>
S_gteq == <<">", "=">>
S_eq == <<"=">>
S_pyproject_toml == <<"p", "y", "p", "r", "o", "j", "e", "c", "t", ".", "t", "o", "m", "l">>
S_install_requires == <<"i", "n", "s", "t", "a", "l", "l", "_", "r", "e", "q", "u", "i", "r", "e", "s">>
S_Pipfile == <<"P", "i", "p", "f", "i", "l", "e">>
S_environment_yml == <<"e", "n", "v", "i", "r", "o", "n", "m", "e", "n", "t", ".", "y", "m", "l">>
S_environment_yaml == <<"e", "n", "v", "i", "r", "o", "n", "m", "e", "n", "t", ".", "y", "a", "m", "l">>
S_hdr_poetry_deps == <<"[", "t", "o", "o", "l", ".", "p", "o", "e", "t", "r", "y", ".", "d", "e", "p", "e", "n", "d", "e", "n", "c", "i", "e", "s", "]">>
S_hdr_poetry_dev_deps == <<"[", "t", "o", "o", "l", ".", "p", "o", "e", "t", "r", "y", ".", "g", "r", "o", "u", "p", ".", "d", "e", "v", ".", "d", "e", "p", "e", "n", "d", "e", "n", "c", "i", "e", "s", "]">>
S_lbracket == <<"[">>
S_rbracket == <<"]">>
S_python == <<"p", "y", "t", "h", "o", "n">>
S_tool == <<"t", "o", "o", "l">>
S_poetry == <<"p", "o", "e", "t", "r", "y">>
S_dependencies == <<"d", "e", "p", "e", "n", "d", "e", "n", "c", "i", "e", "s">>
S_group == <<"g", "r", "o", "u", "p">>
S_dev == <<"d", "e", "v">>

\* comment lines are parsed like the others
RequirementOf_KeepComments(raw) ==
    LET line == Strip(raw) IN
    IF line = <<>> THEN <<>>
    ELSE IF Contains(line, S_eqeq) THEN <<Strip(Before(line, S_eqeq))>>
    ELSE IF Contains(line, S_gteq) THEN <<Strip(Before(line, S_gteq))>>
    ELSE <<>>

\* what one line of a .txt file appends to dependencies["requirements"]
RequirementOf(raw) ==
    LET line == Strip(raw) IN
    IF line = <<>> \/ StartsWith(line, S_hash) THEN <<>>
    ELSE IF Contains(line, S_eqeq) THEN <<Strip(Before(line, S_eqeq))>>
    ELSE IF Contains(line, S_gteq) THEN <<Strip(Before(line, S_gteq))>>
    ELSE <<>>

\* the requirements of all lines of a text
RequirementsOf(content) ==
    LET lines == SplitLines(content)
    IN  Flatten([k \in 1..Len(lines) |-> RequirementOf(lines[k])])

\* the characters of a bare TOML key
Digits == {"0", "1", "2", "3", "4", "5", "6", "7", "8", "9"}
BareChars ==
    DOMAIN UpperToLower \cup {UpperToLower[c] : c \in DOMAIN UpperToLower}
        \cup Digits \cup {"-", "_"}

IsBareKey(s) == s # <<>> /\ \A k \in 1..Len(s) : s[k] \in BareChars

\* a TOML value: a basic string, an integer, an array or an inline table
IsTomlValue(s) ==
    \/ Len(s) >= 2 /\ Head(s) = "\"" /\ s[Len(s)] = "\""
          /\ \A k \in 2..(Len(s) - 1) : s[k] # "\""
    \/ s # <<>> /\ \A k \in 1..Len(s) : s[k] \in Digits
    \/ Len(s) >= 2 /\ Head(s) = "[" /\ s[Len(s)] = "]"
    \/ Len(s) >= 2 /\ Head(s) = "{" /\ s[Len(s)] = "}"

\* toml.loads after one more line: doc.tables are the tables in the order
\* of their headers, the root table first; a line that is no blank, comment,
\* table header or `key = value` makes the parse fail, as does a table or a
\* key given twice
TomlLine(doc, raw) ==
    LET line == Strip(raw)
        last == doc.tables[Len(doc.tables)]
    IN  IF ~doc.ok \/ line = <<>> \/ StartsWith(line, S_hash) THEN doc
        ELSE IF StartsWith(line, S_lbracket)
        THEN LET path == SplitOn(SubSeq(line, 2, Len(line) - 1), ".")
             IN  IF /\ EndsWith(line, S_rbracket)
                    /\ \A k \in 1..Len(path) : IsBareKey(path[k])
                    /\ \A k \in 1..Len(doc.tables) : doc.tables[k].path # path
                 THEN [doc EXCEPT !.tables = Append(@, [path |-> path, keys |-> <<>>])]
                 ELSE [doc EXCEPT !.ok = FALSE]
        ELSE IF Contains(line, S_eq)
        THEN LET key == Strip(Before(line, S_eq))
                 value == Strip(SubSeq(line, IndexOf(line, S_eq) + 1, Len(line)))
             IN  IF /\ IsBareKey(key)
                    /\ IsTomlValue(value)
                    /\ key \notin Range(last.keys)
                 THEN [doc EXCEPT !.tables[Len(doc.tables)].keys = Append(@, key)]
                 ELSE [doc EXCEPT !.ok = FALSE]
        ELSE [doc EXCEPT !.ok = FALSE]

RECURSIVE TomlLines(_, _)
TomlLines(doc, lines) ==
    IF lines = <<>> THEN doc ELSE TomlLines(TomlLine(doc, Head(lines)), Tail(lines))

\* toml.loads(content); ~ok stands for the exception it raises
TomlLoads(content) ==
    TomlLines([ok |-> TRUE, tables |-> <<[path |-> <<>>, keys |-> <<>>]>>],
              SplitLines(content))

IsPrefix(pre, s) == Len(pre) <= Len(s) /\ SubSeq(s, 1, Len(pre)) = pre

\* the value at the path is a table (a dict)
IsTable(doc, path) ==
    \E k \in 1..Len(doc.tables) : IsPrefix(path, doc.tables[k].path)

\* the elements of a sequence without repetitions, in the order of first occurrence
RECURSIVE Distinct(_)
Distinct(s) ==
    IF s = <<>> THEN <<>>
    ELSE LET front == Distinct(SubSeq(s, 1, Len(s) - 1))
         IN  IF s[Len(s)] \in Range(front) THEN front ELSE Append(front, s[Len(s)])

\* list(d.keys()) of the table at the path: its own keys and its sub-tables
TomlKeys(doc, path) ==
    Distinct(Flatten([k \in 1..Len(doc.tables) |->
        IF doc.tables[k].path = path THEN doc.tables[k].keys
        ELSE IF IsPrefix(path, doc.tables[k].path)
        THEN <<doc.tables[k].path[Len(path) + 1]>>
        ELSE <<>>]))

\* key in d, for d the table at the path
TomlIn(doc, path, key) == IsTable(doc, path) /\ key \in Range(TomlKeys(doc, path))

P_poetry == <<S_tool, S_poetry>>
P_poetry_deps == <<S_tool, S_poetry, S_dependencies>>
P_poetry_group == <<S_tool, S_poetry, S_group>>
P_poetry_dev == <<S_tool, S_poetry, S_group, S_dev>>
P_poetry_dev_deps == <<S_tool, S_poetry, S_group, S_dev, S_dependencies>>

\* the pyproject.toml branch when `import toml` succeeds; .keys() of a value
\* that is no table raises, and so does a failed parse: the except clause
\* leaves what was assigned before and goes to the next entry.  Documents
\* whose `tool`, `poetry`, `group` or `dev` key is a scalar are not drawn.
PyprojectToml(dependencies, content) ==
    LET pyproject == TomlLoads(content)
        with_deps ==
            IF TomlIn(pyproject, P_poetry, S_dependencies)
            THEN IF IsTable(pyproject, P_poetry_deps)
                 THEN [raised |-> FALSE,
                       deps |-> [dependencies EXCEPT !.poetry.dependencies =
                                    TomlKeys(pyproject, P_poetry_deps)]]
                 ELSE [raised |-> TRUE, deps |-> dependencies]
            ELSE [raised |-> FALSE, deps |-> dependencies]
        with_dev ==
            IF with_deps.raised THEN with_deps
            ELSE IF /\ TomlIn(pyproject, P_poetry, S_group)
                    /\ TomlIn(pyproject, P_poetry_group, S_dev)
                    /\ TomlIn(pyproject, P_poetry_dev, S_dependencies)
            THEN IF IsTable(pyproject, P_poetry_dev_deps)
                 THEN [raised |-> FALSE,
                       deps |-> [with_deps.deps EXCEPT !.poetry.dev_dependencies =
                                    TomlKeys(pyproject, P_poetry_dev_deps)]]
                 ELSE [raised |-> TRUE, deps |-> with_deps.deps]
            ELSE with_deps
    IN  IF ~pyproject.ok THEN dependencies
        ELSE IF ~(TomlIn(pyproject, <<>>, S_tool) /\ TomlIn(pyproject, <<S_tool>>, S_poetry))
        THEN dependencies
        ELSE IF with_dev.raised THEN with_dev.deps
        ELSE [with_dev.deps EXCEPT !.package_manager = Append(@, "poetry")]

\* the fallback loop after one more line
BasicLine(st, line) ==
    IF Contains(line, S_hdr_poetry_deps)
    THEN [st EXCEPT !.in_dependencies = TRUE, !.in_dev_dependencies = FALSE]
    ELSE IF Contains(line, S_hdr_poetry_dev_deps)
    THEN [st EXCEPT !.in_dependencies = FALSE, !.in_dev_dependencies = TRUE]
    ELSE IF StartsWith(line, S_lbracket)
    THEN [st EXCEPT !.in_dependencies = FALSE, !.in_dev_dependencies = FALSE]
    ELSE LET package == Strip(Before(line, S_eq)) IN
         IF st.in_dependencies /\ Contains(line, S_eq)
         THEN IF package # <<>> /\ package # S_python
              THEN [st EXCEPT !.deps.poetry.dependencies = Append(@, package)]
              ELSE st
         ELSE IF st.in_dev_dependencies /\ Contains(line, S_eq)
         THEN IF package # <<>>
              THEN [st EXCEPT !.deps.poetry.dev_dependencies = Append(@, package)]
              ELSE st
         ELSE st

RECURSIVE BasicLines(_, _)
BasicLines(st, lines) ==
    IF lines = <<>> THEN st ELSE BasicLines(BasicLine(st, Head(lines)), Tail(lines))

\* the pyproject.toml branch when `import toml` raises ImportError
PyprojectBasic(dependencies, content) ==
    LET st == BasicLines([in_dependencies |-> FALSE, in_dev_dependencies |-> FALSE,
                          deps |-> dependencies], SplitLines(content))
    IN  [st.deps EXCEPT !.package_manager = Append(@, "poetry")]

\* what one entry does to `dependencies` (the elif chain of process_entries),
\* sub-directories included
RECURSIVE process_entries(_, _, _)
PythonEntry(dependencies, entry, toml) ==
    IF EndsWith(entry.name, S_txt)
    THEN IF HasText(entry)
         THEN [dependencies EXCEPT
                  !.requirements = @ \o RequirementsOf(entry.object.text),
                  !.package_manager = Append(@, "pip")]
         ELSE dependencies
    ELSE IF entry.name = S_pyproject_toml
    THEN IF HasText(entry)
         THEN IF toml THEN PyprojectToml(dependencies, entry.object.text)
              ELSE PyprojectBasic(dependencies, entry.object.text)
         ELSE dependencies
    ELSE IF entry.name = S_setup_py
    THEN IF HasText(entry) /\ Contains(Lower(entry.object.text), S_install_requires)
         THEN [dependencies EXCEPT !.package_manager = Append(@, "setuptools")]
         ELSE dependencies
    ELSE IF entry.name = S_Pipfile
    THEN IF HasText(entry)
         THEN [dependencies EXCEPT !.package_manager = Append(@, "pipenv")]
         ELSE dependencies
    ELSE IF entry.name \in {S_environment_yml, S_environment_yaml}
    THEN IF HasText(entry)
         THEN [dependencies EXCEPT !.package_manager = Append(@, "conda")]
         ELSE dependencies
    ELSE IF entry.type = "Tree" /\ HasEntries(entry)
    THEN process_entries(dependencies, entry.object.entries, toml)
    ELSE dependencies

process_entries(dependencies, entries_list, toml) ==
    IF entries_list = <<>> THEN dependencies
    ELSE process_entries(PythonEntry(dependencies, Head(entries_list), toml),
                         Tail(entries_list), toml)

\* python_deps = {} / "python_dependencies": None
NoDeps ==
    [null |-> TRUE, requirements |-> <<>>,
     poetry |-> [dependencies |-> <<>>, dev_dependencies |-> <<>>],
     package_manager |-> <<>>]

\* the dictionary check_python_dependencies starts from (authors is left out:
\* only the structured parse fills it)
EmptyPythonDeps == [NoDeps EXCEPT !.null = FALSE]

\* toml: `import toml` succeeds in this process
check_python_dependencies(root, toml, seed) ==
    IF root.null THEN EmptyPythonDeps
    ELSE LET dependencies == process_entries(EmptyPythonDeps, root.entries, toml)
         IN  [dependencies EXCEPT
                 !.requirements = NameSetToList(Range(@), seed),
                 !.package_manager = SetToList(Range(@), seed)]

(***************************************************************************)
(* json.loads, for texts made of objects, strings and integers.  A value   *)
(* is [kind, str, members]: kind "str" with its characters, "num", or      *)
(* "obj" with its members <<[key, val], ...>> in the order of the text.    *)
(***************************************************************************)
\* the character at a position, "" past the end
At(s, pos) == IF pos \in 1..Len(s) THEN s[pos] ELSE ""

\* the first position from pos on that holds no white space
JsonSkip(s, pos) ==
    LET inked == {k \in pos..Len(s) : s[k] \notin Whitespace}
    IN  IF inked = {} THEN Len(s) + 1 ELSE CHOOSE k \in inked : \A m \in inked : k <= m

JsonStr(t) == [kind |-> "str", str |-> t, members |-> <<>>]
JsonNum == [kind |-> "num", str |-> <<>>, members |-> <<>>]
JsonObj(ms) == [kind |-> "obj", str |-> <<>>, members |-> ms]

\* a parse that failed: json.loads raises JSONDecodeError
JsonFail == [ok |-> FALSE, val |-> JsonNum, pos |-> 0]

\* a string whose opening quote is at pos
JsonString(s, pos) ==
    LET closing == {k \in (pos + 1)..Len(s) : s[k] = "\""}
    IN  IF closing = {} THEN JsonFail
        ELSE LET q == CHOOSE k \in closing : \A m \in closing : k <= m
             IN  [ok |-> TRUE, val |-> JsonStr(SubSeq(s, pos + 1, q - 1)), pos |-> q + 1]

\* an integer whose first digit is at pos
JsonNumber(s, pos) ==
    LET after == {k \in pos..(Len(s) + 1) : At(s, k) \notin Digits}
    IN  [ok |-> TRUE, val |-> JsonNum, pos |-> CHOOSE k \in after : \A m \in after : k <= m]

RECURSIVE JsonValue(_, _)
RECURSIVE JsonMembers(_, _, _)
\* the value that starts at or after pos0
JsonValue(s, pos0) ==
    LET pos == JsonSkip(s, pos0) IN
    IF At(s, pos) = "\"" THEN JsonString(s, pos)
    ELSE IF At(s, pos) \in Digits THEN JsonNumber(s, pos)
    ELSE IF At(s, pos) = "{"
    THEN IF At(s, JsonSkip(s, pos + 1)) = "}"
         THEN [ok |-> TRUE, val |-> JsonObj(<<>>), pos |-> JsonSkip(s, pos + 1) + 1]
         ELSE JsonMembers(s, JsonSkip(s, pos + 1), <<>>)
    ELSE JsonFail

\* the members of an object from pos on, after those in acc
JsonMembers(s, pos, acc) ==
    IF At(s, pos) # "\"" THEN JsonFail
    ELSE LET key == JsonString(s, pos) IN
         IF ~key.ok \/ At(s, JsonSkip(s, key.pos)) # ":" THEN JsonFail
         ELSE LET v == JsonValue(s, JsonSkip(s, key.pos) + 1) IN
              IF ~v.ok THEN JsonFail
              ELSE LET ms == Append(acc, [key |-> key.val.str, val |-> v.val])
                       nxt == JsonSkip(s, v.pos)
                   IN  IF At(s, nxt) = "," THEN JsonMembers(s, JsonSkip(s, nxt + 1), ms)
                       ELSE IF At(s, nxt) = "}"
                       THEN [ok |-> TRUE, val |-> JsonObj(ms), pos |-> nxt + 1]
                       ELSE JsonFail

\* json.loads(text): one value and nothing after it
json_loads(text) ==
    LET v == JsonValue(text, 1)
    IN  IF v.ok /\ JsonSkip(text, v.pos) > Len(text) THEN v ELSE JsonFail

\* list(d.keys())
JsonKeys(v) == Distinct([k \in 1..Len(v.members) |-> v.members[k].key])

\* d[key]: the last member of that key
JsonGet(v, key) ==
    LET at == {k \in 1..Len(v.members) : v.members[k].key = key}
    IN  v.members[CHOOSE k \in at : \A m \in at : m <= k].val

\* key in v: a key of an object, a substring of a string
JsonIn(v, key) ==
    IF v.kind = "obj" THEN key \in Range(JsonKeys(v)) ELSE Contains(v.str, key)

(***************************************************************************)
(* check_javascript_dependencies                                           *)
(***************************************************************************)
S_devDependencies == <<"d", "e", "v", "D", "e", "p", "e", "n", "d", "e", "n", "c", "i", "e", "s">>
S_packageManager == <<"p", "a", "c", "k", "a", "g", "e", "M", "a", "n", "a", "g", "e", "r">>
S_yarn == <<"y", "a", "r", "n">>
S_pnpm == <<"p", "n", "p", "m">>
S_yarn_lock == <<"y", "a", "r", "n", ".", "l", "o", "c", "k">>
S_pnpm_lock_yaml == <<"p", "n", "p", "m", "-", "l", "o", "c", "k", ".", "y", "a", "m", "l">>
S_angular_json == <<"a", "n", "g", "u", "l", "a", "r", ".", "j", "s", "o", "n">>
S_vue_config_js == <<"v", "u", "e", ".", "c", "o", "n", "f", "i", "g", ".", "j", "s">>
S_svelte_config_js == <<"s", "v", "e", "l", "t", "e", ".", "c", "o", "n", "f", "i", "g", ".", "j", "s">>
S_next_config_js == <<"n", "e", "x", "t", ".", "c", "o", "n", "f", "i", "g", ".", "j", "s">>
S_gatsby_config_js == <<"g", "a", "t", "s", "b", "y", "-", "c", "o", "n", "f", "i", "g", ".", "j", "s">>
I_react == <<"r", "e", "a", "c", "t">>
I_react_dom == <<"r", "e", "a", "c", "t", "-", "d", "o", "m">>
I_create_react_app == <<"c", "r", "e", "a", "t", "e", "-", "r", "e", "a", "c", "t", "-", "a", "p", "p">>
I_next_js == <<"n", "e", "x", "t", ".", "j", "s">>
I_gatsby == <<"g", "a", "t", "s", "b", "y">>
I_vue == <<"v", "u", "e">>
I_vuex == <<"v", "u", "e", "x">>
I_vue_router == <<"v", "u", "e", "-", "r", "o", "u", "t", "e", "r">>
I_vue_cli == <<"@", "v", "u", "e", "/", "c", "l", "i">>
I_nuxt == <<"n", "u", "x", "t">>
I_angular_core == <<"@", "a", "n", "g", "u", "l", "a", "r", "/", "c", "o", "r", "e">>
I_angular_cli == <<"@", "a", "n", "g", "u", "l", "a", "r", "/", "c", "l", "i">>
I_angular == <<"a", "n", "g", "u", "l", "a", "r">>
I_svelte == <<"s", "v", "e", "l", "t", "e">>
I_svelte_kit == <<"s", "v", "e", "l", "t", "e", "-", "k", "i", "t">>
I_express == <<"e", "x", "p", "r", "e", "s", "s">>
I_nestjs_core == <<"@", "n", "e", "s", "t", "j", "s", "/", "c", "o", "r", "e">>
I_jquery == <<"j", "q", "u", "e", "r", "y">>

\* framework_indicators, in the order of the dictionary
framework_indicators ==
    << [framework |-> "react",
        indicators |-> {I_react, I_react_dom, I_create_react_app, I_next_js, I_gatsby}],
       [framework |-> "vue",
        indicators |-> {I_vue, I_vuex, I_vue_router, I_vue_cli, I_nuxt}],
       [framework |-> "angular",
        indicators |-> {I_angular_core, I_angular_cli, I_angular}],
       [framework |-> "svelte", indicators |-> {I_svelte, I_svelte_kit}],
       [framework |-> "express", indicators |-> {I_express}],
       [framework |-> "nest", indicators |-> {I_nestjs_core}],
       [framework |-> "jquery", indicators |-> {I_jquery}] >>

\* the frameworks the names of one dependency table raise
FrameworksOf(deps) ==
    Flatten([k \in 1..Len(deps) |->
        Flatten([f \in 1..Len(framework_indicators) |->
            IF AnyIn(framework_indicators[f].indicators, Lower(deps[k]))
            THEN <<framework_indicators[f].framework>> ELSE <<>>])])

\* `if key in package_json:` and the block under it, for the two dependency
\* tables; raised: the statement raised (`in` on an integer, indexing a
\* string, .keys() of a value that is no object)
DependencyTable(dependencies, package_json, key, field) ==
    IF package_json.kind = "num"
    THEN [raised |-> TRUE, deps |-> dependencies]
    ELSE IF ~JsonIn(package_json, key)
    THEN [raised |-> FALSE, deps |-> dependencies]
    ELSE IF package_json.kind # "obj" \/ JsonGet(package_json, key).kind # "obj"
    THEN [raised |-> TRUE, deps |-> dependencies]
    ELSE LET new_deps == JsonKeys(JsonGet(package_json, key))
         IN  [raised |-> FALSE,
              deps |-> [dependencies EXCEPT
                           ![field] = @ \o new_deps,
                           !.frameworks = @ \o FrameworksOf(new_deps)]]

\* `if "packageManager" in package_json:` and the block under it; a raise
\* there leaves the dictionary as it is
PackageManagerField(dependencies, package_json) ==
    IF ~JsonIn(package_json, S_packageManager) \/ package_json.kind # "obj"
    THEN dependencies
    ELSE LET pm == JsonGet(package_json, S_packageManager) IN
         IF pm.kind = "num" THEN dependencies
         ELSE IF JsonIn(pm, S_yarn)
         THEN [dependencies EXCEPT !.package_manager = Append(@, "yarn")]
         ELSE IF JsonIn(pm, S_pnpm)
         THEN [dependencies EXCEPT !.package_manager = Append(@, "pnpm")]
         ELSE dependencies

\* json.loads raises on a text that is no JSON
JsonLoadsRaises(text) == ~json_loads(text).ok

\* javascript_deps = {} / "javascript_dependencies": None
NoJsDeps ==
    [null |-> TRUE, dependencies |-> <<>>, dev_dependencies |-> <<>>,
     frameworks |-> <<>>, package_manager |-> <<>>]

EmptyJavascriptDeps == [NoJsDeps EXCEPT !.null = FALSE]

\* a text that is no JSON empties the dictionary
PackageJson_Reset(dependencies, text) ==
    IF JsonLoadsRaises(text) THEN EmptyJavascriptDeps
    ELSE LET package_json == json_loads(text).val
             deps == DependencyTable(dependencies, package_json,
                                     S_dependencies, "dependencies")
             dev == IF deps.raised THEN deps
                    ELSE DependencyTable(deps.deps, package_json,
                                         S_devDependencies, "dev_dependencies")
         IN  IF dev.raised THEN dev.deps
             ELSE PackageManagerField(
                      [dev.deps EXCEPT !.package_manager = Append(@, "npm")],
                      package_json)

\* the try block of the package.json branch and its except clause, which
\* keeps what was added before the raise and goes to the next entry
PackageJson(dependencies, text) ==
    IF JsonLoadsRaises(text) THEN dependencies
    ELSE LET package_json == json_loads(text).val
             deps == DependencyTable(dependencies, package_json,
                                     S_dependencies, "dependencies")
             dev == IF deps.raised THEN deps
                    ELSE DependencyTable(deps.deps, package_json,
                                         S_devDependencies, "dev_dependencies")
         IN  IF dev.raised THEN dev.deps
             ELSE PackageManagerField(
                      [dev.deps EXCEPT !.package_manager = Append(@, "npm")],
                      package_json)

\* what one entry does to `dependencies` (the elif chain of the loop)
JavascriptEntry(dependencies, entry) ==
    IF entry.name = S_package_json
    THEN IF HasText(entry) THEN PackageJson(dependencies, entry.object.text)
         ELSE dependencies
    ELSE IF entry.name = S_yarn_lock
    THEN [dependencies EXCEPT !.package_manager = Append(@, "yarn")]
    ELSE IF entry.name = S_pnpm_lock_yaml
    THEN [dependencies EXCEPT !.package_manager = Append(@, "pnpm")]
    ELSE IF entry.name = S_angular_json
    THEN [dependencies EXCEPT !.frameworks = Append(@, "angular")]
    ELSE IF entry.name = S_vue_config_js
    THEN [dependencies EXCEPT !.frameworks = Append(@, "vue")]
    ELSE IF entry.name = S_svelte_config_js
    THEN [dependencies EXCEPT !.frameworks = Append(@, "svelte")]
    ELSE IF entry.name = S_next_config_js
    THEN [dependencies EXCEPT !.frameworks = @ \o <<"react", "next.js">>]
    ELSE IF entry.name = S_gatsby_config_js
    THEN [dependencies EXCEPT !.frameworks = @ \o <<"react", "gatsby">>]
    ELSE dependencies

RECURSIVE JavascriptEntries(_, _)
JavascriptEntries(dependencies, entries) ==
    IF entries = <<>> THEN dependencies
    ELSE JavascriptEntries(JavascriptEntry(dependencies, Head(entries)), Tail(entries))

check_javascript_dependencies(root, seed) ==
    IF root.null THEN EmptyJavascriptDeps
    ELSE LET dependencies == JavascriptEntries(EmptyJavascriptDeps, root.entries)
         IN  [dependencies EXCEPT
                 !.dependencies = NameSetToList(Range(@), seed),
                 !.dev_dependencies = NameSetToList(Range(@), seed),
                 !.frameworks = SetToList(Range(@), seed),
                 !.package_manager = SetToList(Range(@), seed)]

(***************************************************************************)
(* Dates and exact fractions.                                              *)
(***************************************************************************)
\* (now - fromisoformat(last_commit)).days: timedelta.days rounds down
DaysBetween(now, then) == (now - then) \div TicksPerDay

\* strftime("%Y-%m-%d") of an instant: the day it falls on
DateOf(now) == now \div TicksPerDay

\* a float the code computes by division, kept exact as num/den
RECURSIVE GCD(_, _)
GCD(a, b) == IF b = 0 THEN a ELSE GCD(b, a % b)

Rat(n, d) == LET g == GCD(d, n) IN [num |-> n \div g, den |-> d \div g]
RatAdd(a, b) == Rat(a.num * b.den + b.num * a.den, a.den * b.den)

\* the digits after the third decimal are cut off
Round3_Down(x) == (x.num * 1000) \div x.den

\* round(x, 3), in thousandths
Round3(x) == (2 * x.num * 1000 + x.den) \div (2 * x.den)

(***************************************************************************)
(* The per-repository classification (the body of the try block).          *)
(***************************************************************************)
\* the percentage cut to a whole number
Percentage_Floor(edge, total_size) == Rat((edge.size * 100) \div total_size, 1)

\* (edge["size"] / total_size) * 100
Percentage(edge, total_size) == Rat(edge.size * 100, total_size)

\* ZeroDivisionError at the first edge
LanguagesRaise(repo) ==
    /\ repo.languages.edges # <<>>
    /\ repo.languages.totalSize = 0

\* entry["object"]["text"] of a readme.md / makefile entry that is no Blob
ReadmeScanRaises(repo) ==
    /\ ~repo.object.null
    /\ \E k \in 1..Len(repo.object.entries) :
          LET entry == repo.object.entries[k] IN
          /\ Lower(entry.name) \in {S_readme_md, S_makefile}
          /\ TextRaises(entry)

\* entry["object"]["entries"] of a .github / ci entry that is no Tree
WorkflowScanRaises(repo) ==
    /\ ~repo.object.null
    /\ \E k \in 1..Len(repo.object.entries) :
          LET entry == repo.object.entries[k] IN
          /\ entry.name \in {S_dot_github, S_ci}
          /\ EntriesRaises(entry)

\* the try block raises before all_repos.append(repo_info)
ClassifyRaises(repo) ==
    LanguagesRaise(repo) \/ ReadmeScanRaises(repo) \/ WorkflowScanRaises(repo)

\* the statistics dictionary after the edges of one repository
RECURSIVE UpdateLanguageStats(_, _, _)
UpdateLanguageStats(stats_dict, edges, total_size) ==
    IF edges = <<>> THEN stats_dict
    ELSE LET edge == Head(edges)
             lang_name == edge.name
             old == IF lang_name \in DOMAIN stats_dict
                    THEN stats_dict[lang_name]
                    ELSE [repo_count |-> 0, average_percentage |-> Rat(0, 1),
                          total_size |-> 0]
             new == [repo_count |-> old.repo_count + 1,
                     average_percentage |->
                         RatAdd(old.average_percentage, Percentage(edge, total_size)),
                     total_size |-> old.total_size + edge.size]
         IN  UpdateLanguageStats(
                 [l \in DOMAIN stats_dict \cup {lang_name} |->
                     IF l = lang_name THEN new ELSE stats_dict[l]],
                 Tail(edges), total_size)

\* the languages list of the record
LanguageList(repo) ==
    [k \in 1..Len(repo.languages.edges) |->
        [name |-> repo.languages.edges[k].name,
         size |-> repo.languages.edges[k].size,
         percentage |-> Percentage(repo.languages.edges[k], repo.languages.totalSize)]]

\* the IAC list the language loop builds (HCL, Dockerfile)
LanguageIAC(repo) ==
    Flatten([k \in 1..Len(repo.languages.edges) |->
        (IF repo.languages.edges[k].name = "HCL" THEN <<"Terraform">> ELSE <<>>)
        \o (IF repo.languages.edges[k].name = "Dockerfile" THEN <<"Docker">> ELSE <<>>)])

\* has_python after the language loop, when only the last edge decides
HasPython_LastEdge(repo) ==
    /\ repo.languages.edges # <<>>
    /\ repo.languages.edges[Len(repo.languages.edges)].name = "Python"

\* has_python after the language loop
HasPython(repo) ==
    \E k \in 1..Len(repo.languages.edges) : repo.languages.edges[k].name = "Python"

\* has_javascript after the language loop
HasJavascript(repo) ==
    \E k \in 1..Len(repo.languages.edges) :
        repo.languages.edges[k].name \in {"JavaScript", "TypeScript"}

\* the extractors the classifier calls for the repository, in order
ExtractorCalls(repo) ==
    (IF HasPython(repo) THEN <<[repo |-> repo.name, extractor |-> "python"]>> ELSE <<>>)
    \o (IF HasJavascript(repo)
        THEN <<[repo |-> repo.name, extractor |-> "javascript"]>> ELSE <<>>)

\* documentation_list and cloud_services_list, lowercased as the scan does
documentation_list ==
    << [label |-> "Confluence", lower |-> S_confluence],
       [label |-> "MKDocs", lower |-> S_mkdocs],
       [label |-> "Sphinx", lower |-> S_sphinx],
       [label |-> "ReadTheDocs", lower |-> S_readthedocs] >>

cloud_services_list ==
    << [label |-> "AWS", lower |-> S_aws],
       [label |-> "Azure", lower |-> S_azure],
       [label |-> "GCP", lower |-> S_gcp] >>

\* the lists docs and cloud the paired scan of the README builds: zip stops
\* at the shorter list; repo_info reads neither list
ReadmePairedScan(readme_content) ==
    IF readme_content = NoneStr
    THEN [docs |-> <<>>, cloud |-> <<>>]
    ELSE LET n == Min(Len(documentation_list), Len(cloud_services_list))
             readme_lower == Lower(readme_content)
         IN  [docs |-> Flatten([k \in 1..n |->
                        IF Contains(readme_lower, documentation_list[k].lower)
                        THEN <<documentation_list[k].label>> ELSE <<>>]),
              cloud |-> Flatten([k \in 1..n |->
                        IF Contains(readme_lower, cloud_services_list[k].lower)
                        THEN <<cloud_services_list[k].label>> ELSE <<>>])]

\* repo_info; the keys of "technologies" are kept at the top level
RepoInfo(repo, seed, toml) ==
    [name |-> repo.name,
     visibility |-> repo.visibility,
     is_archived |-> repo.isArchived,
     last_commit |-> repo.committedDate,
     languages |-> LanguageList(repo),
     infrastructure_as_code |-> check_infrastructure_files(repo.object, seed),
     cloud_providers |->
         check_cloud_providers(repo.object, ReadmeContent(repo.object), seed),
     ci_cd |-> check_ci_cd(repo.object, seed),
     documentation |-> check_documentation(repo.object, seed),
     testing |-> check_testing(repo.object, seed),
     python_dependencies |->
         IF HasPython(repo) THEN check_python_dependencies(repo.object, toml, seed)
         ELSE NoDeps,
     javascript_dependencies |->
         IF HasJavascript(repo) THEN check_javascript_dependencies(repo.object, seed)
         ELSE NoJsDeps]

(***************************************************************************)
(* The organisations the model is run on.                                  *)
(***************************************************************************)
\* the instant the run starts at
Now0 == 400 * TicksPerDay

\* a commit date that is d whole days and `part` ticks before Now0
Ago(d, part) == Now0 - d * TicksPerDay - part

F_main_tf == <<"m", "a", "i", "n", ".", "t", "f">>
F_deploy_yaml == <<"d", "e", "p", "l", "o", "y", ".", "y", "a", "m", "l">>
F_playbook_yml == <<"p", "l", "a", "y", "b", "o", "o", "k", ".", "y", "m", "l">>
F_stack_json == <<"s", "t", "a", "c", "k", ".", "j", "s", "o", "n">>
F_README_md == <<"R", "E", "A", "D", "M", "E", ".", "m", "d">>
F_svc_yml == <<"s", "v", "c", ".", "y", "m", "l">>
F_notes_txt == <<"n", "o", "t", "e", "s", ".", "t", "x", "t">>
T_k8s_deployment == <<"K", "i", "n", "d", ":", " ", "D", "e", "p", "l", "o", "y", "m", "e", "n", "t">>
T_k8s_service == <<"k", "i", "n", "d", ":", " ", "S", "e", "r", "v", "i", "c", "e">>
T_cfn == <<"A", "W", "S", "T", "e", "m", "p", "l", "a", "t", "e">>
T_plain == <<"h", "e", "l", "l", "o">>

Edge(n, sz) == [name |-> n, size |-> sz]

RepoNode(n, vis, arch, date, edges, total, obj) ==
    [name |-> n, visibility |-> vis, isArchived |-> arch, committedDate |-> date,
     languages |-> [edges |-> edges, totalSize |-> total], object |-> obj]

\* repositories that differ in visibility, archival, age, languages and tree;
\* "gh" makes the classifier raise (a file named .github)
StatRepos ==
    { RepoNode("svc", "PUBLIC", FALSE, Ago(45, 0),
               <<Edge("Python", 800), Edge("HTML", 200)>>, 1000,
               TreeObj(<<Blob(F_main_tf, T_plain), Tree(S_ansible, <<>>)>>)),
      RepoNode("infra", "PRIVATE", TRUE, Ago(30, TicksPerDay - 1),
               <<Edge("HCL", 600), Edge("Dockerfile", 400)>>, 1000,
               TreeObj(<<Blob(F_README_md, T_plain)>>)),
      RepoNode("empty", "INTERNAL", FALSE, NoDate, <<>>, 0, NullObj),
      RepoNode("gh", "INTERNAL", TRUE, Ago(10, 0),
               <<Edge("Python", 100)>>, 100,
               TreeObj(<<Blob(F_main_tf, T_plain), Blob(S_dot_github, T_plain)>>)) }

\* last commits on both sides of every window; those exactly 30, 90 and 180
\* days old grow a day older at the first tick of the clock
AgeDates ==
    { NoDate, Ago(0, 0), Ago(30, TicksPerDay - 1), Ago(45, 0),
      Ago(90, TicksPerDay - 1), Ago(180, TicksPerDay - 1), Ago(181, 0) }

\* repositories that differ in the age of their last commit and in archival
AgeRepos ==
    { RepoNode("a", "PUBLIC", arch, date, <<>>, 0, NullObj) :
        arch \in BOOLEAN, date \in AgeDates }

\* the top-level entries the infrastructure rules tell apart
InfraEntries ==
    { Blob(F_main_tf, T_plain),
      Tree(S_terraform, <<>>),
      Blob(F_deploy_yaml, T_k8s_deployment),
      Blob(F_svc_yml, T_k8s_service),
      Blob(F_stack_json, T_cfn),
      Blob(F_deploy_yaml, T_cfn \o T_k8s_service),
      Blob(F_playbook_yml, T_plain),
      Tree(S_ansible, <<>>),
      Blob(F_notes_txt, T_k8s_service),
      Blob(F_svc_yml, NoneStr) }

LanguageChoices ==
    { <<>>, <<Edge("HCL", 10)>>, <<Edge("Dockerfile", 10)>>,
      <<Edge("Python", 5), Edge("HCL", 3), Edge("Dockerfile", 2)>> }

SeqsUpTo(S, n) == UNION {[1..k -> S] : k \in 0..n}

RECURSIVE SumSizes(_)
SumSizes(edges) == IF edges = <<>> THEN 0 ELSE Head(edges).size + SumSizes(Tail(edges))

\* repositories that differ in their tree and languages
TreeRepos ==
    { RepoNode("t", "PUBLIC", FALSE, Ago(1, 0), es, SumSizes(es), TreeObj(t)) :
        es \in LanguageChoices, t \in SeqsUpTo(InfraEntries, 2) }
    \cup { RepoNode("n", "PUBLIC", FALSE, Ago(1, 0), es, SumSizes(es), NullObj) :
        es \in LanguageChoices }
    \cup { RepoNode("gh", "PRIVATE", TRUE, NoDate, <<Edge("HCL", 10)>>, 10,
                    TreeObj(<<Blob(F_deploy_yaml, T_k8s_deployment),
                              Blob(S_dot_github, T_plain)>>)),
           RepoNode("gh", "PRIVATE", FALSE, NoDate, <<Edge("HCL", 10)>>, 10,
                    TreeObj(<<Tree(F_README_md, <<>>)>>)) }

(***************************************************************************)
(* State.                                                                  *)
(***************************************************************************)
VARIABLES
    org,            \* the organisation's repository nodes, in the API's order
    toml_available, \* `import toml` succeeds where the job runs
    fail_at,        \* the request the transport fails at (0: none)
    fail_kind,      \* "status": result.ok is false; "errors": the body has errors
    hashseed,       \* the process's string-hash seed
    clock,          \* datetime.now(), in ticks
    requests,       \* the cursor of every request made, in order
    responses,      \* the response to each of them
    pc,             \* "request", "classify", "windows", "done"
    has_next_page, cursor, data, i,
    all_repos,
    total_repos, private_repos, public_repos, internal_repos,
    archived_repos, archived_private, archived_public, archived_internal,
    language_stats, archived_language_stats,
    p, j,           \* the activity count being summed and the record it is at
    hits,           \* hits[q]: the records count q has counted
    report_start,   \* the clock when the output dictionary is begun
    file,           \* repositories.json: <<>> or <<the document>>
    returned,       \* <<>> or <<the returned list>>
    run, first_file, \* the run of the job, and the document of the first run
    calls           \* the dependency extractors called so far, in order

counters == <<total_repos, private_repos, public_repos, internal_repos,
              archived_repos, archived_private, archived_public, archived_internal>>

input == <<org, toml_available, fail_at, fail_kind>>

vars == <<org, toml_available, fail_at, fail_kind, hashseed, clock, requests, responses, pc,
          has_next_page, cursor, data, i, all_repos, counters,
          language_stats, archived_language_stats, p, j, hits, report_start,
          file, returned, run, first_file, calls>>

(***************************************************************************)
(* The transport: ql.make_ql_request(query, variables).  It serves the     *)
(* organisation in pages of `limit` nodes after the cursor, a cursor being *)
(* the position of the last node served.                                   *)
(***************************************************************************)
PageAfter(c, limit) ==
    LET start == IF c = NoCursor THEN 0 ELSE c
        nodes == SubSeq(org, start + 1, Min(start + limit, Len(org)))
    IN  [ok |-> TRUE, errors |-> FALSE, nodes |-> nodes,
         pageInfo |-> [hasNextPage |-> start + limit < Len(org),
                       endCursor |-> IF nodes = <<>> THEN NoCursor
                                     ELSE start + Len(nodes)]]

FailedResponse(kind) ==
    [ok |-> kind # "status", errors |-> kind = "errors", nodes |-> <<>>,
     pageInfo |-> [hasNextPage |-> FALSE, endCursor |-> NoCursor]]

\* the response to request number n (counted from 1) with cursor c
Transport(n, c, limit) ==
    IF n = fail_at THEN FailedResponse(fail_kind) ELSE PageAfter(c, limit)

\* the number of pages the organisation is served in
NumPages(o) == IF Len(o) = 0 THEN 1 ELSE (Len(o) + BatchSize - 1) \div BatchSize

(***************************************************************************)
(* get_repository_technologies                                             *)
(***************************************************************************)
\* `not result.ok`, or "errors" in data: the loop is left
ResponseFails(result) == ~result.ok \/ result.errors

\* `continue` in place of `break`: the request is made again
AfterFailedResponse_Retry == "request"

\* where control goes on a failed response: `break`, to the code after the loop
AfterFailedResponse == "windows"

\* the cursor is never advanced
NextCursor_Stale(page_info) == NoCursor

\* the cursor of the next request
NextCursor(page_info) == page_info.endCursor

\* the loop goes on until a page comes without a cursor
NextHasNextPage_UntilEmpty(page_info) == page_info.endCursor # NoCursor

\* the loop condition after a page
NextHasNextPage(page_info) == page_info.hasNextPage

BeginReport ==
    /\ pc' = "windows"
    /\ p' = 1
    /\ j' = 1
    /\ hits' = [q \in 1..6 |-> {}]
    /\ report_start' = clock

\* while has_next_page: ... make_ql_request ... break on a failed response
Request ==
    /\ pc = "request"
    /\ IF ~has_next_page
       THEN /\ BeginReport
            /\ UNCHANGED <<requests, responses, data, i>>
       ELSE LET result == Transport(Len(requests) + 1, cursor, BatchSize) IN
            /\ requests' = Append(requests, cursor)
            /\ responses' = Append(responses, result)
            /\ IF ResponseFails(result)
               THEN /\ IF AfterFailedResponse = "windows"
                       THEN BeginReport
                       ELSE /\ pc' = AfterFailedResponse
                            /\ UNCHANGED <<p, j, hits, report_start>>
                    /\ UNCHANGED <<data, i>>
               ELSE /\ data' = result
                    /\ i' = 1
                    /\ pc' = "classify"
                    /\ UNCHANGED <<p, j, hits, report_start>>
    /\ UNCHANGED <<input, hashseed, clock, has_next_page, cursor, all_repos, counters,
                   language_stats, archived_language_stats, file, returned,
                   run, first_file, calls>>

\* 1 if the repository has the visibility, else 0
IsVis(repo, v) == IF repo.visibility = v THEN 1 ELSE 0

\* the archived visibility counters bumped outside `if is_archived`
IsArchivedVis_Unguarded(repo, v) == IF repo.visibility = v THEN 1 ELSE 0

\* 1 if the repository is archived and has the visibility, else 0
IsArchivedVis(repo, v) == IF repo.isArchived /\ repo.visibility = v THEN 1 ELSE 0

\* the try statement around the for loop: a raise abandons the rest of the page
AfterRaise_AbandonPage(idx, nodes) == Len(nodes) + 1

\* the node after a node whose classification raised: the except clause logs,
\* and the for loop goes on
AfterRaise(idx, nodes) == idx + 1

\* one iteration of `for repo in repos`: the try block and its except clause
ClassifyRepo ==
    /\ pc = "classify"
    /\ i <= Len(data.nodes)
    /\ LET repo == data.nodes[i] IN
       /\ total_repos' = total_repos + 1
       /\ archived_repos' = archived_repos + (IF repo.isArchived THEN 1 ELSE 0)
       /\ archived_private' = archived_private + IsArchivedVis(repo, "PRIVATE")
       /\ archived_public' = archived_public + IsArchivedVis(repo, "PUBLIC")
       /\ archived_internal' = archived_internal + IsArchivedVis(repo, "INTERNAL")
       /\ private_repos' = private_repos + IsVis(repo, "PRIVATE")
       /\ public_repos' = public_repos + IsVis(repo, "PUBLIC")
       /\ internal_repos' = internal_repos + IsVis(repo, "INTERNAL")
       /\ IF LanguagesRaise(repo)
          THEN UNCHANGED <<language_stats, archived_language_stats>>
          ELSE IF repo.isArchived
          THEN /\ archived_language_stats' =
                      UpdateLanguageStats(archived_language_stats,
                          repo.languages.edges, repo.languages.totalSize)
               /\ UNCHANGED language_stats
          ELSE /\ language_stats' =
                      UpdateLanguageStats(language_stats,
                          repo.languages.edges, repo.languages.totalSize)
               /\ UNCHANGED archived_language_stats
       /\ calls' = IF LanguagesRaise(repo) THEN calls
                    ELSE calls \o ExtractorCalls(repo)
       /\ IF ClassifyRaises(repo)
          THEN /\ all_repos' = all_repos
               /\ i' = AfterRaise(i, data.nodes)
          ELSE /\ all_repos' =
                      Append(all_repos, RepoInfo(repo, hashseed, toml_available))
               /\ i' = i + 1
    /\ UNCHANGED <<input, hashseed, clock, requests, responses, pc, has_next_page,
                   cursor, data, p, j, hits, report_start, file, returned,
                   run, first_file>>

\* the end of the for loop: page_info is read for the next turn of the while loop
EndPage ==
    /\ pc = "classify"
    /\ i > Len(data.nodes)
    /\ has_next_page' = NextHasNextPage(data.pageInfo)
    /\ cursor' = NextCursor(data.pageInfo)
    /\ pc' = "request"
    /\ UNCHANGED <<input, hashseed, clock, requests, responses, data, i, all_repos,
                   counters, language_stats, archived_language_stats, p, j, hits,
                   report_start, file, returned, run, first_file, calls>>

(***************************************************************************)
(* The output document.  Its six activity counts are summed one after the  *)
(* other, each term reading datetime.now() for itself.                     *)
(***************************************************************************)
\* the thresholds of the one-month and three-month sums exchanged
Passes_Swapped ==
    << [archived |-> FALSE, days |-> 90, key |-> "active_last_month"],
       [archived |-> FALSE, days |-> 30, key |-> "active_last_3months"],
       [archived |-> FALSE, days |-> 180, key |-> "active_last_6months"],
       [archived |-> TRUE, days |-> 90, key |-> "active_last_month"],
       [archived |-> TRUE, days |-> 30, key |-> "active_last_3months"],
       [archived |-> TRUE, days |-> 180, key |-> "active_last_6months"] >>

\* the six sums, in the order the dictionary literal evaluates them
Passes ==
    << [archived |-> FALSE, days |-> 30, key |-> "active_last_month"],
       [archived |-> FALSE, days |-> 90, key |-> "active_last_3months"],
       [archived |-> FALSE, days |-> 180, key |-> "active_last_6months"],
       [archived |-> TRUE, days |-> 30, key |-> "active_last_month"],
       [archived |-> TRUE, days |-> 90, key |-> "active_last_3months"],
       [archived |-> TRUE, days |-> 180, key |-> "active_last_6months"] >>

\* `<` in place of `<=`
WindowCond_Strict(rec, pass, now) ==
    /\ rec.last_commit # NoDate
    /\ rec.is_archived = pass.archived
    /\ DaysBetween(now, rec.last_commit) < pass.days

\* the condition of one sum, for one record, with `now` what datetime.now() returns
WindowCond(rec, pass, now) ==
    /\ rec.last_commit # NoDate
    /\ rec.is_archived = pass.archived
    /\ DaysBetween(now, rec.last_commit) <= pass.days

\* one term of one sum, or the end of the sum
WindowStep ==
    /\ pc = "windows"
    /\ p <= Len(Passes)
    /\ IF j <= Len(all_repos)
       THEN /\ hits' = [hits EXCEPT ![p] =
                           IF WindowCond(all_repos[j], Passes[p], clock)
                           THEN @ \cup {j} ELSE @]
            /\ j' = j + 1
            /\ p' = p
       ELSE /\ p' = p + 1
            /\ j' = 1
            /\ hits' = hits
    /\ UNCHANGED <<input, hashseed, clock, requests, responses, pc, has_next_page,
                   cursor, data, i, all_repos, counters, language_stats,
                   archived_language_stats, report_start, file, returned,
                   run, first_file, calls>>

\* language_averages / archived_language_averages
LanguageAverages(stats_dict) ==
    [lang \in DOMAIN stats_dict |->
        [repo_count |-> stats_dict[lang].repo_count,
         average_percentage |->
             Round3(Rat(stats_dict[lang].average_percentage.num,
                        stats_dict[lang].average_percentage.den
                            * stats_dict[lang].repo_count)),
         total_size |-> stats_dict[lang].total_size]]

\* sum(1 for repo in all_repos if tool in repo["technologies"][category])
Prevalence(tools, category) ==
    [tool \in tools |->
        Cardinality({k \in 1..Len(all_repos) : tool \in Range(all_repos[k][category])})]

\* the same over a list of the python or javascript dependencies, where the
\* repository has them
PrevalenceIn(tools, category, field) ==
    [tool \in tools |->
        Cardinality({k \in 1..Len(all_repos) :
            /\ ~all_repos[k][category].null
            /\ tool \in Range(all_repos[k][category][field])})]

\* the dictionary `output`
Output ==
    [repositories |-> all_repos,
     stats_unarchived |->
        [total |-> total_repos - archived_repos,
         private |-> private_repos - archived_private,
         public |-> public_repos - archived_public,
         internal |-> internal_repos - archived_internal,
         active_last_month |-> Cardinality(hits[1]),
         active_last_3months |-> Cardinality(hits[2]),
         active_last_6months |-> Cardinality(hits[3])],
     stats_archived |->
        [total |-> archived_repos,
         private |-> archived_private,
         public |-> archived_public,
         internal |-> archived_internal,
         active_last_month |-> Cardinality(hits[4]),
         active_last_3months |-> Cardinality(hits[5]),
         active_last_6months |-> Cardinality(hits[6])],
     language_statistics_unarchived |-> LanguageAverages(language_stats),
     language_statistics_archived |-> LanguageAverages(archived_language_stats),
     metadata |-> [last_updated |-> DateOf(clock)],
     technology_statistics |->
        [infrastructure_as_code |->
            Prevalence({"Terraform", "CloudFormation", "Kubernetes", "Ansible"},
                       "infrastructure_as_code"),
         cloud_providers |-> Prevalence({"AWS", "GCP", "Azure"}, "cloud_providers"),
         ci_cd |->
            Prevalence({"GitHub Actions", "Jenkins", "CircleCI", "Travis CI",
                        "Concourse"}, "ci_cd"),
         documentation |->
            Prevalence({"Documentation Directory", "Jekyll", "Sphinx", "MkDocs",
                        "Docusaurus", "Markdown Documentation"}, "documentation"),
         testing |->
            Prevalence({"Test Directory", "Test Files", "Testing Framework"}, "testing"),
         python_package_managers |->
            PrevalenceIn({"pip", "poetry", "pipenv", "conda", "setuptools"},
                         "python_dependencies", "package_manager"),
         javascript_frameworks |->
            PrevalenceIn({"react", "vue", "angular", "svelte", "express", "nest",
                          "jquery", "next.js", "gatsby"},
                         "javascript_dependencies", "frameworks"),
         javascript_package_managers |->
            PrevalenceIn({"npm", "yarn", "pnpm"},
                         "javascript_dependencies", "package_manager")]]

\* the rest of the dictionary, json.dump to repositories.json, return all_repos
WriteOutput ==
    /\ pc = "windows"
    /\ p > Len(Passes)
    /\ file' = <<Output>>
    /\ returned' = <<all_repos>>
    /\ pc' = "done"
    /\ UNCHANGED <<input, hashseed, clock, requests, responses, has_next_page,
                   cursor, data, i, all_repos, counters, language_stats,
                   archived_language_stats, p, j, hits, report_start,
                   run, first_file, calls>>

\* time passes while the report is built
Tick ==
    /\ pc = "windows"
    /\ clock < Now0 + MaxDrift
    /\ clock' = clock + 1
    /\ UNCHANGED <<input, hashseed, requests, responses, pc, has_next_page, cursor,
                   data, i, all_repos, counters, language_stats,
                   archived_language_stats, p, j, hits, report_start, file,
                   returned, run, first_file, calls>>

\* the state get_repository_technologies starts in
Start ==
    /\ requests = <<>>
    /\ responses = <<>>
    /\ pc = "request"
    /\ has_next_page = TRUE
    /\ cursor = NoCursor
    /\ data = FailedResponse("status")
    /\ i = 1
    /\ all_repos = <<>>
    /\ total_repos = 0 /\ private_repos = 0 /\ public_repos = 0 /\ internal_repos = 0
    /\ archived_repos = 0 /\ archived_private = 0 /\ archived_public = 0
    /\ archived_internal = 0
    /\ language_stats = <<>>
    /\ archived_language_stats = <<>>
    /\ p = 1 /\ j = 1
    /\ hits = [q \in 1..6 |-> {}]
    /\ report_start = NoDate
    /\ file = <<>>
    /\ returned = <<>>
    /\ calls = <<>>

\* the scheduler runs the job again on the same organisation, in a new process
Restart ==
    /\ pc = "done"
    /\ run = 1
    /\ run' = 2
    /\ first_file' = file
    /\ hashseed' \in 0..MaxSeed
    /\ requests' = <<>>
    /\ responses' = <<>>
    /\ pc' = "request"
    /\ has_next_page' = TRUE
    /\ cursor' = NoCursor
    /\ data' = FailedResponse("status")
    /\ i' = 1
    /\ all_repos' = <<>>
    /\ total_repos' = 0 /\ private_repos' = 0 /\ public_repos' = 0
    /\ internal_repos' = 0 /\ archived_repos' = 0 /\ archived_private' = 0
    /\ archived_public' = 0 /\ archived_internal' = 0
    /\ language_stats' = <<>>
    /\ archived_language_stats' = <<>>
    /\ p' = 1 /\ j' = 1
    /\ hits' = [q \in 1..6 |-> {}]
    /\ report_start' = NoDate
    /\ file' = <<>>
    /\ returned' = <<>>
    /\ calls' = <<>>
    /\ UNCHANGED <<input, clock>>

\* an organisation, an installation with or without the toml package, a
\* transport failure (or none), a hash seed
InitWith(orgs, tomls) ==
    /\ org \in orgs
    /\ toml_available \in tomls
    /\ fail_kind \in {"none", "status", "errors"}
    /\ fail_at \in 0..NumPages(org)
    /\ (fail_at = 0) = (fail_kind = "none")
    /\ hashseed \in 0..MaxSeed
    /\ clock = Now0
    /\ run = 1
    /\ first_file = <<>>
    /\ Start

\* the same, where the toml package is installed
InitOn(orgs) == InitWith(orgs, {TRUE})

Init == InitOn(SeqsUpTo(StatRepos, MaxRepos))

Next == Request \/ ClassifyRepo \/ EndPage \/ WindowStep \/ WriteOutput \/ Tick

Spec == Init /\ [][Next]_vars

(***************************************************************************)
(* What the run was fed, and what it should have recorded.                 *)
(***************************************************************************)
\* the nodes of every page received so far, in the order received
Fed == Flatten([k \in 1..Len(responses) |-> responses[k].nodes])

\* the nodes among them whose classification does not raise
RECURSIVE Classifiable(_)
Classifiable(nodes) ==
    IF nodes = <<>> THEN <<>>
    ELSE (IF ClassifyRaises(Head(nodes)) THEN <<>> ELSE <<Head(nodes)>>)
         \o Classifiable(Tail(nodes))

\* the loops are over: the report is being built or is written
LoopsOver == pc \in {"windows", "done"}

\* the last response received is a failed one
LastFailed == responses # <<>> /\ ResponseFails(responses[Len(responses)])

(***************************************************************************)
(* C1: the first request carries cursor = None, every later request        *)
(* carries the endCursor of the response before it, a request follows a    *)
(* response exactly when that response is a page with hasNextPage = true,  *)
(* and the records are in page order and, within a page, in node order.    *)
(***************************************************************************)
C1_CursorChain ==
    /\ requests # <<>> => requests[1] = NoCursor
    /\ \A k \in 2..Len(requests) :
          /\ ~ResponseFails(responses[k - 1])
          /\ responses[k - 1].pageInfo.hasNextPage
          /\ requests[k] = responses[k - 1].pageInfo.endCursor
    /\ LoopsOver =>
          /\ requests # <<>>
          /\ LastFailed \/ ~responses[Len(responses)].pageInfo.hasNextPage
          /\ LET kept == Classifiable(Fed)
             IN  [k \in 1..Len(all_repos) |-> all_repos[k].name]
                    = [k \in 1..Len(kept) |-> kept[k].name]

\* a run of two pages that recorded nodes of both
C1_Witness ==
    /\ pc = "done"
    /\ Len(requests) = 2
    /\ Len(responses[1].nodes) = 2
    /\ Len(all_repos) = 3
    /\ all_repos[1].name # all_repos[2].name
    /\ all_repos[2].name # all_repos[3].name

\* the records of the nodes that classify, in order
RecordsOf(nodes) ==
    LET kept == Classifiable(nodes)
    IN  [k \in 1..Len(kept) |-> RepoInfo(kept[k], hashseed, toml_available)]

\* the nodes the for loop is done with
Processed ==
    IF pc = "classify"
    THEN Flatten([k \in 1..(Len(responses) - 1) |-> responses[k].nodes])
         \o SubSeq(data.nodes, 1, i - 1)
    ELSE Fed

\* the top-level keys of the output document
OutputKeys ==
    {"repositories", "stats_unarchived", "stats_archived",
     "language_statistics_unarchived", "language_statistics_archived",
     "metadata", "technology_statistics"}

(***************************************************************************)
(* C2: a failed response (non-success, or a body with an error list) is    *)
(* the last one: no request follows it, the records of the earlier pages   *)
(* are kept as they are, and the run still writes a document with every    *)
(* top-level key and returns the accumulated records.                      *)
(***************************************************************************)
C2_FailFast ==
    /\ \A k \in 1..(Len(responses) - 1) : ~ResponseFails(responses[k])
    /\ LastFailed =>
          /\ LoopsOver
          /\ Len(requests) = Len(responses)
          /\ all_repos = RecordsOf(Fed)
          /\ pc = "done" =>
                /\ Len(file) = 1
                /\ DOMAIN file[1] = OutputKeys
                /\ file[1].repositories = all_repos
                /\ returned = <<all_repos>>

\* the second page failed with an error list; the first page's records are written
C2_Witness ==
    /\ pc = "done"
    /\ Len(responses) = 2
    /\ responses[2].ok /\ responses[2].errors
    /\ Len(all_repos) = 2
    /\ Len(file) = 1
    /\ Len(file[1].repositories) = 2

C4_TotalsMatchRecords ==
    Len(file) = 1 =>
        file[1].stats_unarchived.total + file[1].stats_archived.total
            = Len(file[1].repositories)

(***************************************************************************)
(* C5: in each statistics block private + public + internal equals the     *)
(* block's total, and no value of the unarchived block (overall counter    *)
(* minus archived counter) is negative, at every point of the fold and in  *)
(* the document.                                                           *)
(***************************************************************************)
C5_VisibilityPartition ==
    /\ archived_private + archived_public + archived_internal = archived_repos
    /\ (private_repos - archived_private) + (public_repos - archived_public)
          + (internal_repos - archived_internal) = total_repos - archived_repos
    /\ total_repos - archived_repos >= 0
    /\ private_repos - archived_private >= 0
    /\ public_repos - archived_public >= 0
    /\ internal_repos - archived_internal >= 0
    /\ Len(file) = 1 =>
          LET u == file[1].stats_unarchived
              a == file[1].stats_archived
          IN  /\ u.private + u.public + u.internal = u.total
              /\ a.private + a.public + a.internal = a.total
              /\ u.total >= 0 /\ u.private >= 0 /\ u.public >= 0 /\ u.internal >= 0

\* a document over archived and unarchived repositories of all three
\* visibilities, one of which failed classification
C5_Witness ==
    /\ Len(file) = 1
    /\ total_repos = 3
    /\ Len(all_repos) = 2
    /\ private_repos = 1 /\ public_repos = 1 /\ internal_repos = 1
    /\ file[1].stats_archived.total = 2
    /\ file[1].stats_archived.internal = 1
    /\ file[1].stats_unarchived.total = 1
    /\ file[1].stats_unarchived.private = 0

(***************************************************************************)
(* C6: in both blocks of the document the activity windows are nested:     *)
(* what active_last_month counts, active_last_3months counts, and what     *)
(* that counts, active_last_6months counts, although every term reads the  *)
(* clock for itself while time passes.                                     *)
(***************************************************************************)
C6_WindowsNested ==
    Len(file) = 1 =>
        /\ hits[1] \subseteq hits[2] /\ hits[2] \subseteq hits[3]
        /\ hits[4] \subseteq hits[5] /\ hits[5] \subseteq hits[6]
        /\ file[1].stats_unarchived.active_last_month
              <= file[1].stats_unarchived.active_last_3months
        /\ file[1].stats_unarchived.active_last_3months
              <= file[1].stats_unarchived.active_last_6months
        /\ file[1].stats_archived.active_last_month
              <= file[1].stats_archived.active_last_3months
        /\ file[1].stats_archived.active_last_3months
              <= file[1].stats_archived.active_last_6months

\* the clock advanced during the report, and the windows differ
C6_Witness ==
    /\ Len(file) = 1
    /\ clock > report_start
    /\ file[1].stats_archived.active_last_month = 1
    /\ file[1].stats_unarchived.active_last_month = 0
    /\ file[1].stats_unarchived.active_last_3months = 1
    /\ file[1].stats_unarchived.active_last_6months = 1

(***************************************************************************)
(* C7: a record whose last commit is d whole days before the generation    *)
(* instant is counted in the windows of 30, 90 and 180 days exactly when   *)
(* d <= 30, d <= 90, d <= 180, and only in the block of its is_archived    *)
(* flag; a record without a last commit is counted nowhere.  The           *)
(* generation instant is any instant between the begin of the report and   *)
(* its writing; d is taken at both ends.                                   *)
(***************************************************************************)
C7_WindowMembership ==
    Len(file) = 1 =>
        \A q \in 1..Len(Passes), k \in 1..Len(all_repos) :
            LET rec == all_repos[k] IN
            /\ k \in hits[q] =>
                  /\ rec.last_commit # NoDate
                  /\ rec.is_archived = Passes[q].archived
                  /\ DaysBetween(report_start, rec.last_commit) <= Passes[q].days
            /\ ( /\ rec.last_commit # NoDate
                 /\ rec.is_archived = Passes[q].archived
                 /\ DaysBetween(clock, rec.last_commit) <= Passes[q].days )
                  => k \in hits[q]
            /\ file[1].stats_unarchived[Passes[q].key]
                  = Cardinality(hits[IF q <= 3 THEN q ELSE q - 3])
            /\ file[1].stats_archived[Passes[q].key]
                  = Cardinality(hits[IF q <= 3 THEN q + 3 ELSE q])

\* an unarchived record 45 days old is in the 3- and 6-month windows only,
\* next to a record without a last commit
C7_Witness ==
    /\ Len(file) = 1
    /\ \E k \in 1..Len(all_repos) :
          /\ ~all_repos[k].is_archived
          /\ all_repos[k].last_commit # NoDate
          /\ DaysBetween(report_start, all_repos[k].last_commit) = 45
          /\ DaysBetween(clock, all_repos[k].last_commit) = 45
          /\ k \notin hits[1] /\ k \in hits[2] /\ k \in hits[3]
          /\ k \notin hits[4] /\ k \notin hits[5] /\ k \notin hits[6]
    /\ \E k \in 1..Len(all_repos) : all_repos[k].last_commit = NoDate
    /\ file[1].stats_unarchived.active_last_month = 0
    /\ file[1].stats_unarchived.active_last_3months = 1

(***************************************************************************)
(* The job run twice on one organisation, and organisations that differ in *)
(* their trees.                                                            *)
(***************************************************************************)
RerunRepos == {r \in StatRepos : r.name \in {"svc", "infra", "gh"}}

InitRerun == InitOn(SeqsUpTo(RerunRepos, MaxRepos))

\* the clock stands still: both runs read the same instant
NextRerun ==
    Request \/ ClassifyRepo \/ EndPage \/ WindowStep \/ WriteOutput \/ Restart

SpecRerun == InitRerun /\ [][NextRerun]_vars

\* one or two repositories of every age
InitAges == InitOn({<<a>> : a \in AgeRepos} \cup {<<a, b>> : a, b \in AgeRepos})

SpecAges == InitAges /\ [][Next]_vars

InitTrees ==
    InitOn({<<r>> : r \in TreeRepos}
           \cup {<<g, r>> : g \in {t \in TreeRepos : t.name = "gh"},
                            r \in {t \in TreeRepos : t.name = "n"}})

SpecTrees == InitTrees /\ [][Next]_vars

\* the document without metadata.last_updated
SansDate(doc) == [doc EXCEPT !.metadata = [last_updated |-> 0]]

(***************************************************************************)
(* C8: the same sequence of nodes fed through the run twice gives the same *)
(* document but for metadata.last_updated, the order inside every label    *)
(* list included.                                                          *)
(***************************************************************************)
C8_RerunIdentical ==
    (run = 2 /\ Len(file) = 1) => SansDate(file[1]) = SansDate(first_file[1])

(***************************************************************************)
(* C9: a recorded repository with a language edge named HCL has            *)
(* "Terraform" in infrastructure_as_code, and one with a language edge     *)
(* named Dockerfile has "Docker" there, whatever its tree holds.           *)
(***************************************************************************)
C9_LanguageEdgeLabels ==
    \A k \in 1..Len(all_repos) :
        LET names == {all_repos[k].languages[m].name :
                          m \in 1..Len(all_repos[k].languages)}
            iac == Range(all_repos[k].infrastructure_as_code)
        IN  /\ "HCL" \in names => "Terraform" \in iac
            /\ "Dockerfile" \in names => "Docker" \in iac

\* a top-level .yaml/.yml file whose lowercased body names a deployment or a service
IsKubernetesManifest(entry) ==
    /\ EndsWith(entry.name, S_yaml) \/ EndsWith(entry.name, S_yml)
    /\ HasText(entry)
    /\ \/ Contains(Lower(entry.object.text), S_kind_deployment)
       \/ Contains(Lower(entry.object.text), S_kind_service)

\* a .yml file whose name contains `playbook`
IsPlaybook(entry) ==
    /\ EndsWith(entry.name, S_yml)
    /\ Contains(Lower(entry.name), S_playbook)

(***************************************************************************)
(* C10: the rules of check_infrastructure_files are independent: every     *)
(* Kubernetes manifest among the top-level entries of a recorded           *)
(* repository puts "Kubernetes" into its infrastructure_as_code, and every *)
(* playbook .yml puts "Ansible" there, whatever other rule the entry       *)
(* matches or was tested against.                                          *)
(***************************************************************************)
C10_RulesIndependent ==
    LET kept == Classifiable(Processed) IN
    \A k \in 1..Min(Len(all_repos), Len(kept)) :
        LET root == kept[k].object
            iac == Range(all_repos[k].infrastructure_as_code)
        IN  \A m \in 1..Len(root.entries) :
                /\ IsKubernetesManifest(root.entries[m]) => "Kubernetes" \in iac
                /\ IsPlaybook(root.entries[m]) => "Ansible" \in iac

(***************************************************************************)
(* Organisations of one repository whose tree holds the files the cloud    *)
(* rules tell apart.                                                       *)
(***************************************************************************)
T_provider_google == <<"p", "r", "o", "v", "i", "d", "e", "r", " ", "\"", "G", "o", "o", "g", "l", "e", "\"", " ", "{", "}">>
T_provider_aws == <<"p", "r", "o", "v", "i", "d", "e", "r", " ", "\"", "a", "w", "s", "\"", " ", "{", "}">>
T_provider_both == <<"p", "r", "o", "v", "i", "d", "e", "r", " ", "\"", "a", "w", "s", "\"", " ", "{", "}", " ", "p", "r", "o", "v", "i", "d", "e", "r", " ", "\"", "g", "o", "o", "g", "l", "e", "\"", " ", "{", "}">>
T_arm == <<"{", "\"", "t", "y", "p", "e", "\"", ":", " ", "\"", "M", "i", "c", "r", "o", "s", "o", "f", "t", ".", "A", "z", "u", "r", "e", "/", "s", "i", "t", "e", "s", "\"", "}">>
T_bicep == <<"s", "c", "o", "p", "e", ":", " ", "x", ".", "a", "z", "u", "r", "e", ".", "c", "o", "m">>
F_arm_json == <<"a", "r", "m", ".", "j", "s", "o", "n">>
F_main_bicep == <<"m", "a", "i", "n", ".", "b", "i", "c", "e", "p">>

CloudEntries ==
    { Blob(F_main_tf, T_provider_google),
      Blob(F_main_tf, T_provider_aws),
      Blob(F_main_tf, T_provider_both),
      Blob(F_arm_json, T_arm),
      Blob(S_cdk_json, T_arm),
      Blob(F_main_bicep, T_bicep),
      Blob(S_template_yaml, T_plain),
      Tree(S_gcp, <<>>),
      Blob(F_README_md, T_plain) }

\* the trees of at most n of the entries, no two of one name
TreesOf(entries, n) ==
    {t \in SeqsUpTo(entries, n) :
        \A a, b \in 1..Len(t) : a # b => t[a].name # t[b].name}

CloudRepos ==
    { RepoNode("c", "PUBLIC", FALSE, Ago(1, 0), <<>>, 0, TreeObj(t)) :
        t \in TreesOf(CloudEntries, 2) }

\* organisations of one repository
InitSingle(repos) == InitOn({<<r>> : r \in repos})

InitCloud == InitSingle(CloudRepos)

SpecCloud == InitCloud /\ [][Next]_vars

\* a .tf file whose lowercased body holds `provider "google"`
IsGoogleTerraform(entry) ==
    /\ EndsWith(entry.name, S_tf)
    /\ HasText(entry)
    /\ Contains(Lower(entry.object.text), S_provider_google)

\* a .json or .bicep file whose lowercased body holds microsoft.azure or .azure.
IsAzureTemplate(entry) ==
    /\ EndsWith(entry.name, S_json) \/ EndsWith(entry.name, S_bicep)
    /\ HasText(entry)
    /\ \/ Contains(Lower(entry.object.text), S_microsoft_azure)
       \/ Contains(Lower(entry.object.text), S_dot_azure_dot)

(***************************************************************************)
(* C11: every file trigger of check_cloud_providers produces its label: a  *)
(* top-level .tf file whose body holds `provider "google"` puts "GCP" into *)
(* the record's cloud_providers, with or without `provider "aws"` in the   *)
(* same file, and a .json or .bicep file whose body holds microsoft.azure  *)
(* or .azure. puts "Azure" there, cdk.json and .bicep files included.      *)
(***************************************************************************)
C11_CloudTriggers ==
    LET kept == Classifiable(Processed) IN
    \A k \in 1..Min(Len(all_repos), Len(kept)) :
        LET root == kept[k].object
            cloud == Range(all_repos[k].cloud_providers)
        IN  \A m \in 1..Len(root.entries) :
                /\ IsGoogleTerraform(root.entries[m]) => "GCP" \in cloud
                /\ IsAzureTemplate(root.entries[m]) => "Azure" \in cloud

(***************************************************************************)
(* Organisations of one repository whose tree holds the entries the CI/CD  *)
(* rules tell apart.                                                       *)
(***************************************************************************)
CiEntries ==
    { Tree(S_dot_github, <<Tree(S_workflows, <<>>)>>),
      Tree(S_dot_github, <<Blob(F_notes_txt, T_plain)>>),
      Tree(S_dot_github, <<>>),
      Blob(S_dot_github, T_plain),
      Blob(S_Jenkinsfile, T_plain),
      Tree(S_ci, <<Blob(S_pipeline_yml, T_plain)>>),
      Blob(F_main_tf, T_plain) }

CiRepos ==
    { RepoNode("ci", "PUBLIC", FALSE, Ago(1, 0), <<>>, 0, TreeObj(t)) :
        t \in TreesOf(CiEntries, 2) }

InitCi == InitSingle(CiRepos)

SpecCi == InitCi /\ [][Next]_vars

\* the root has an entry named .github
HasDotGithub(repo) ==
    /\ ~repo.object.null
    /\ \E m \in 1..Len(repo.object.entries) : repo.object.entries[m].name = S_dot_github

\* the root has an entry named .github with a child named workflows
HasWorkflows(repo) ==
    /\ ~repo.object.null
    /\ \E m \in 1..Len(repo.object.entries) :
          /\ repo.object.entries[m].name = S_dot_github
          /\ \E c \in 1..Len(repo.object.entries[m].object.entries) :
                repo.object.entries[m].object.entries[c].name = S_workflows

\* the root has an entry another CI/CD rule goes by
HasOtherCiSignal(repo) ==
    /\ ~repo.object.null
    /\ \E m \in 1..Len(repo.object.entries) :
          repo.object.entries[m].name
              \in {S_Jenkinsfile, S_jenkins, S_circleci, S_travis_yml, S_ci}

(***************************************************************************)
(* C12: a repository whose root has an entry named .github is recorded,    *)
(* whether .github has a workflows child, other children, no children, or  *)
(* is a file; its record's ci_cd holds "GitHub Actions" when .github has a *)
(* child named workflows, and is empty when it has none and the tree holds *)
(* no other CI signal.                                                     *)
(***************************************************************************)
C12_GithubActions ==
    LET seen == Processed
        kept == Classifiable(seen)
    IN  /\ \A k \in 1..Len(seen) :
              HasDotGithub(seen[k]) =>
                  \E m \in 1..Len(all_repos) : all_repos[m].name = seen[k].name
        /\ \A k \in 1..Min(Len(all_repos), Len(kept)) :
              /\ HasWorkflows(kept[k]) => "GitHub Actions" \in Range(all_repos[k].ci_cd)
              /\ ( /\ HasDotGithub(kept[k])
                   /\ ~HasWorkflows(kept[k])
                   /\ ~HasOtherCiSignal(kept[k]) ) => all_repos[k].ci_cd = <<>>

(***************************************************************************)
(* Organisations of one repository with a README, next to the entries the  *)
(* documentation rules go by.                                              *)
(***************************************************************************)
T_readme_confluence == <<"S", "e", "e", " ", "C", "o", "n", "f", "l", "u", "e", "n", "c", "e">>
T_readme_mkdocs == <<"B", "u", "i", "l", "t", " ", "w", "i", "t", "h", " ", "M", "k", "D", "o", "c", "s">>
T_readme_sphinx == <<"S", "p", "h", "i", "n", "x", " ", "d", "o", "c", "s">>
T_readme_readthedocs == <<"O", "n", " ", "R", "e", "a", "d", "T", "h", "e", "D", "o", "c", "s">>
T_readme_aws == <<"R", "u", "n", "s", " ", "o", "n", " ", "A", "W", "S">>
T_readme_azure == <<"R", "u", "n", "s", " ", "o", "n", " ", "A", "z", "u", "r", "e">>
T_readme_gcp == <<"R", "u", "n", "s", " ", "o", "n", " ", "G", "C", "P">>
T_readme_confluence_gcp == <<"C", "o", "n", "f", "l", "u", "e", "n", "c", "e", ",", " ", "G", "C", "P">>

ReadmeTexts ==
    { T_plain, T_readme_confluence, T_readme_mkdocs, T_readme_sphinx,
      T_readme_readthedocs, T_readme_aws, T_readme_azure, T_readme_gcp,
      T_readme_confluence_gcp, NoneStr }

ReadmeRepos ==
    { RepoNode("r", "PUBLIC", FALSE, Ago(1, 0), <<>>, 0,
               TreeObj(<<Blob(F_README_md, t)>> \o rest)) :
        t \in ReadmeTexts,
        rest \in {<<>>, <<Tree(S_docs, <<>>)>>, <<Blob(S_conf_py, T_plain)>>} }

InitReadme == InitSingle(ReadmeRepos)

SpecReadme == InitReadme /\ [][Next]_vars

(***************************************************************************)
(* C13: the paired scan of the README contributes to the record: every     *)
(* name of the documentation list (Confluence, MKDocs, Sphinx,             *)
(* ReadTheDocs) that the README body holds, in any case, is in the         *)
(* record's documentation, and every name of the cloud list it holds is in *)
(* the record's cloud_providers.                                           *)
(***************************************************************************)
C13_ReadmeScanContributes ==
    LET kept == Classifiable(Processed) IN
    \A k \in 1..Min(Len(all_repos), Len(kept)) :
        LET readme_content == ReadmeContent(kept[k].object) IN
        readme_content # NoneStr =>
            /\ \A d \in 1..Len(documentation_list) :
                  Contains(Lower(readme_content), documentation_list[d].lower)
                      => documentation_list[d].label \in Range(all_repos[k].documentation)
            /\ \A c \in 1..Len(cloud_services_list) :
                  Contains(Lower(readme_content), cloud_services_list[c].lower)
                      => cloud_services_list[c].label \in Range(all_repos[k].cloud_providers)

(***************************************************************************)
(* Organisations of one repository that differ in the language edges.      *)
(***************************************************************************)
T_req_flask == <<"f", "l", "a", "s", "k", "=", "=", "2", ".", "0", ".", "1">>
T_pkg_react == <<"{", "\"", "d", "e", "p", "e", "n", "d", "e", "n", "c", "i", "e", "s", "\"", ":", " ", "{", "\"", "r", "e", "a", "c", "t", "\"", ":", " ", "\"", "1", "8", "\"", "}", "}">>

LanguageNames == {"Python", "JavaScript", "TypeScript", "HTML"}

\* the sizes of the edges, largest first as the query orders them
SizeVectors == {<<>>, <<5>>, <<3, 1>>, <<1, 1>>, <<4, 2, 1>>, <<1, 1, 1>>}

\* up to three edges of different languages, with sizes summing to totalSize
LanguageEdges ==
    UNION { { [k \in 1..Len(sz) |-> Edge(names[k], sz[k])] :
                names \in {ns \in [1..Len(sz) -> LanguageNames] :
                              \A a, b \in 1..Len(ns) : a # b => ns[a] # ns[b]} } :
            sz \in SizeVectors }

LangTrees ==
    { NullObj,
      TreeObj(<<Blob(S_requirements_txt, T_req_flask)>>),
      TreeObj(<<Blob(S_package_json, T_pkg_react)>>),
      TreeObj(<<Blob(S_dot_github, T_plain)>>) }

LangRepos ==
    { RepoNode("l", "PUBLIC", arch, Ago(1, 0), es, SumSizes(es), obj) :
        arch \in BOOLEAN, es \in LanguageEdges, obj \in LangTrees }

InitLangs == InitSingle(LangRepos)

SpecLangs == InitLangs /\ [][Next]_vars

\* the names of the language edges of a node
EdgeNames(repo) ==
    {repo.languages.edges[m].name : m \in 1..Len(repo.languages.edges)}

(***************************************************************************)
(* C14: in every record python_dependencies is non-null exactly when one   *)
(* of the repository's language edges is named Python, and                 *)
(* javascript_dependencies exactly when one is named JavaScript or         *)
(* TypeScript; the extractors are called for those repositories and for no *)
(* other, the Python one first.                                            *)
(***************************************************************************)
C14_DependencyGate ==
    LET seen == Processed
        kept == Classifiable(seen)
    IN  /\ \A k \in 1..Min(Len(all_repos), Len(kept)) :
              /\ ~all_repos[k].python_dependencies.null
                    <=> "Python" \in EdgeNames(kept[k])
              /\ ~all_repos[k].javascript_dependencies.null
                    <=> EdgeNames(kept[k]) \cap {"JavaScript", "TypeScript"} # {}
        /\ calls = Flatten([k \in 1..Len(seen) |->
              (IF "Python" \in EdgeNames(seen[k])
               THEN <<[repo |-> seen[k].name, extractor |-> "python"]>> ELSE <<>>)
              \o (IF EdgeNames(seen[k]) \cap {"JavaScript", "TypeScript"} # {}
                  THEN <<[repo |-> seen[k].name, extractor |-> "javascript"]>>
                  ELSE <<>>)])

\* a record of a repository with Python first and HTML last: the Python
\* extractor was called and found the requirement, the JavaScript one was not
C14_Witness ==
    /\ pc = "done"
    /\ Len(all_repos) = 1
    /\ Len(all_repos[1].languages) = 2
    /\ all_repos[1].languages[1].name = "Python"
    /\ all_repos[1].languages[2].name = "HTML"
    /\ ~all_repos[1].python_dependencies.null
    /\ all_repos[1].python_dependencies.requirements # <<>>
    /\ all_repos[1].javascript_dependencies.null
    /\ calls = <<[repo |-> "l", extractor |-> "python"]>>

(***************************************************************************)
(* Organisations of one Python repository whose tree holds requirement     *)
(* files at the three levels the query fetches.                            *)
(***************************************************************************)
T_req_mixed == <<"#", " ", "w", "a", "s", " ", "f", "l", "a", "s", "k", "=", "=", "1", ".", "0", "\n", "\n", "f", "l", "a", "s", "k", "=", "=", "2", ".", "0", ".", "1", "\n", " ", "r", "e", "q", "u", "e", "s", "t", "s", " ", ">", "=", " ", "2", ".", "0", " ", "\n", "f", "l", "a", "s", "k", "=", "=", "2", ".", "0", ".", "1", "\n", "s", "c", "i", "p", "y", "\n">>
T_req_marker == <<"p", "y", "w", "i", "n", "3", "2", ">", "=", "3", "0", "0", ";", " ", "s", "y", "s", "_", "p", "l", "a", "t", "f", "o", "r", "m", "=", "=", "\"", "w", "i", "n", "3", "2", "\"", "\n">>
F_dev_txt == <<"d", "e", "v", ".", "t", "x", "t">>
F_sub == <<"s", "u", "b">>

\* a directory at the third level: the query asks for none of its entries
LeafTree(n) ==
    [name |-> n, type |-> "Tree", object |-> [NullObj EXCEPT !.null = FALSE]]

RequirementTexts == {T_req_flask, T_req_mixed, T_req_marker, NoneStr}

RequirementTrees ==
    { <<Blob(F_main_tf, T_plain)>> }
    \cup { <<Blob(S_requirements_txt, t)>> : t \in RequirementTexts }
    \cup { <<Tree(S_docs, <<Blob(F_dev_txt, t2)>>), Blob(S_requirements_txt, t1)>> :
              t1, t2 \in RequirementTexts }
    \cup { <<Tree(S_docs, <<Tree(F_sub, <<LeafTree(S_tests), Blob(F_dev_txt, t)>>)>>)>> :
              t \in RequirementTexts }

RequirementRepos ==
    { RepoNode("q", "PUBLIC", FALSE, Ago(1, 0),
               <<Edge("Python", 800), Edge("HTML", 200)>>, 1000, TreeObj(t)) :
        t \in RequirementTrees }

InitRequirements == InitSingle(RequirementRepos)

SpecRequirements == InitRequirements /\ [][Next]_vars

\* the files of a tree, at every level fetched
RECURSIVE BlobsOf(_)
BlobsOf(entries) ==
    IF entries = <<>> THEN <<>>
    ELSE (IF Head(entries).type = "Blob" THEN <<Head(entries)>>
          ELSE BlobsOf(Head(entries).object.entries))
         \o BlobsOf(Tail(entries))

\* the texts of the .txt files of a tree that have one
RequirementFiles(root) ==
    IF root.null THEN {}
    ELSE {b.object.text : b \in {f \in Range(BlobsOf(root.entries)) :
                                     EndsWith(f.name, S_txt) /\ HasText(f)}}

\* the names a requirement text pins: of every line that is not blank and
\* no comment, the text before its first `==` or, in a line without `==`,
\* before its first `>=`, without the white space around it
PinnedNames(text) ==
    LET lines == {Strip(l) : l \in Range(SplitLines(text))}
        pins == {l \in lines : l # <<>> /\ Head(l) # "#"
                               /\ (Contains(l, S_eqeq) \/ Contains(l, S_gteq))}
    IN  { Strip(SubSeq(l, 1, (IF Contains(l, S_eqeq) THEN IndexOf(l, S_eqeq)
                                                       ELSE IndexOf(l, S_gteq)) - 1)) :
            l \in pins }

(***************************************************************************)
(* C15: for a Python repository `requirements` holds, once each, exactly   *)
(* the names its .txt files with text pin with `==` or `>=` (the text      *)
(* before the operator, of the lines that are neither blank nor comments), *)
(* whatever the level of the file in the fetched tree, and package_manager *)
(* holds "pip" whenever there is such a file; languages                    *)
(* [{Python,800},{HTML,200}] with a requirements.txt `flask==2.0.1` give   *)
(* requirements ["flask"], "pip" and the percentages 80 and 20.            *)
(***************************************************************************)
C15_Requirements ==
    LET kept == Classifiable(Processed) IN
    \A k \in 1..Min(Len(all_repos), Len(kept)) :
        "Python" \in EdgeNames(kept[k]) =>
            LET deps == all_repos[k].python_dependencies
                files == RequirementFiles(kept[k].object)
                names == UNION {PinnedNames(t) : t \in files}
            IN  /\ Range(deps.requirements) = names
                /\ Len(deps.requirements) = Cardinality(names)
                /\ files # {} => "pip" \in Range(deps.package_manager)
                /\ ( /\ kept[k].object.entries = <<Blob(S_requirements_txt, T_req_flask)>>
                     /\ kept[k].languages.edges = <<Edge("Python", 800), Edge("HTML", 200)>>
                     /\ kept[k].languages.totalSize = 1000 )
                      => /\ deps.requirements = <<<<"f", "l", "a", "s", "k">>>>
                         /\ "pip" \in Range(deps.package_manager)
                         /\ all_repos[k].languages =
                               << [name |-> "Python", size |-> 800, percentage |-> Rat(80, 1)],
                                  [name |-> "HTML", size |-> 200, percentage |-> Rat(20, 1)] >>

\* a record whose requirements come from a file at the root and a file in a
\* directory: a comment, a blank line, an unpinned line and a repeated pin
\* left nothing, the two pinned names are there once
C15_Witness ==
    /\ pc = "done"
    /\ Len(all_repos) = 1
    /\ Len(org[1].object.entries) = 2
    /\ RequirementFiles(org[1].object) = {T_req_flask, T_req_mixed}
    /\ Len(all_repos[1].python_dependencies.requirements) = 2
    /\ <<"f", "l", "a", "s", "k">> \in Range(all_repos[1].python_dependencies.requirements)
    /\ <<"r", "e", "q", "u", "e", "s", "t", "s">>
          \in Range(all_repos[1].python_dependencies.requirements)
    /\ all_repos[1].python_dependencies.package_manager = <<"pip">>

(***************************************************************************)
(* Organisations of one Python repository with pyproject.toml files, read  *)
(* by a process that has the toml package and by one that has not.         *)
(***************************************************************************)
T_pp_plain == <<"[", "t", "o", "o", "l", ".", "p", "o", "e", "t", "r", "y", "]", "\n", "n", "a", "m", "e", " ", "=", " ", "\"", "x", "\"", "\n", "\n", "[", "t", "o", "o", "l", ".", "p", "o", "e", "t", "r", "y", ".", "d", "e", "p", "e", "n", "d", "e", "n", "c", "i", "e", "s", "]", "\n", "f", "l", "a", "s", "k", " ", "=", " ", "\"", "2", ".", "0", "\"", "\n", "\n", "[", "t", "o", "o", "l", ".", "p", "o", "e", "t", "r", "y", ".", "g", "r", "o", "u", "p", ".", "d", "e", "v", ".", "d", "e", "p", "e", "n", "d", "e", "n", "c", "i", "e", "s", "]", "\n", "p", "y", "t", "e", "s", "t", " ", "=", " ", "\"", "7", "\"", "\n">>
T_pp_python == <<"[", "t", "o", "o", "l", ".", "p", "o", "e", "t", "r", "y", "]", "\n", "n", "a", "m", "e", " ", "=", " ", "\"", "x", "\"", "\n", "\n", "[", "t", "o", "o", "l", ".", "p", "o", "e", "t", "r", "y", ".", "d", "e", "p", "e", "n", "d", "e", "n", "c", "i", "e", "s", "]", "\n", "p", "y", "t", "h", "o", "n", " ", "=", " ", "\"", "3", ".", "1", "1", "\"", "\n", "f", "l", "a", "s", "k", " ", "=", " ", "\"", "2", ".", "0", "\"", "\n">>
T_pp_build == <<"[", "b", "u", "i", "l", "d", "-", "s", "y", "s", "t", "e", "m", "]", "\n", "r", "e", "q", "u", "i", "r", "e", "s", " ", "=", " ", "[", "\"", "s", "e", "t", "u", "p", "t", "o", "o", "l", "s", "\"", "]", "\n">>
T_pp_other == <<"[", "t", "o", "o", "l", ".", "p", "o", "e", "t", "r", "y", ".", "d", "e", "p", "e", "n", "d", "e", "n", "c", "i", "e", "s", "]", "\n", "r", "e", "q", "u", "e", "s", "t", "s", " ", "=", " ", "\"", "2", "\"", "\n">>

PyprojectTexts == {T_pp_plain, T_pp_python, T_pp_build, T_pp_other, NoneStr}

PyprojectTrees ==
    { <<Blob(S_pyproject_toml, t)>> : t \in PyprojectTexts }
    \cup { <<Blob(S_pyproject_toml, t1), Tree(F_sub, <<Blob(S_pyproject_toml, t2)>>)>> :
              t1 \in {T_pp_plain}, t2 \in {T_pp_other, T_pp_plain} }

PyprojectRepos ==
    { RepoNode("y", "PUBLIC", FALSE, Ago(1, 0), <<Edge("Python", 10)>>, 10, TreeObj(t)) :
        t \in PyprojectTrees }

InitPyproject == InitWith({<<r>> : r \in PyprojectRepos}, BOOLEAN)

SpecPyproject == InitPyproject /\ [][Next]_vars

\* the texts of the pyproject.toml files of a tree that have one
PyprojectFiles(root) ==
    IF root.null THEN {}
    ELSE {b.object.text : b \in {f \in Range(BlobsOf(root.entries)) :
                                     f.name = S_pyproject_toml /\ HasText(f)}}

(***************************************************************************)
(* C16: when every pyproject.toml of a Python repository is well-formed,   *)
(* the record built by the process at hand has the same poetry dependency  *)
(* names, the same dev-dependency names and the same package_manager flags *)
(* as the other parser (structured parse / line-based fallback) gives for  *)
(* the same tree.                                                          *)
(***************************************************************************)
C16_ParsersAgree ==
    LET kept == Classifiable(Processed) IN
    \A k \in 1..Min(Len(all_repos), Len(kept)) :
        ( /\ "Python" \in EdgeNames(kept[k])
          /\ \A t \in PyprojectFiles(kept[k].object) : TomlLoads(t).ok )
        => LET here == all_repos[k].python_dependencies
               other == check_python_dependencies(kept[k].object, ~toml_available, hashseed)
           IN  /\ Range(here.poetry.dependencies) = Range(other.poetry.dependencies)
               /\ Range(here.poetry.dev_dependencies) = Range(other.poetry.dev_dependencies)
               /\ Range(here.package_manager) = Range(other.package_manager)

(***************************************************************************)
(* Organisations of two repositories: a JavaScript repository whose        *)
(* package.json may be no JSON, among lockfiles and framework              *)
(* configuration files, and the repository read after it.                  *)
(***************************************************************************)
T_pkg_trailing == <<"{", "\"", "d", "e", "p", "e", "n", "d", "e", "n", "c", "i", "e", "s", "\"", ":", " ", "{", "\"", "r", "e", "a", "c", "t", "\"", ":", " ", "\"", "1", "8", "\"", "}", ",", "}">>
T_pkg_open == <<"{", "\"", "d", "e", "p", "e", "n", "d", "e", "n", "c", "i", "e", "s", "\"", ":", " ", "{", "\"", "r", "e", "a", "c", "t", "\"", ":", " ", "\"", "1", "8", "\"", "}">>
T_pkg_quotes == <<"{", "'", "d", "e", "p", "e", "n", "d", "e", "n", "c", "i", "e", "s", "'", ":", " ", "{", "'", "r", "e", "a", "c", "t", "'", ":", " ", "'", "1", "8", "'", "}", "}">>

MalformedTexts == {T_pkg_trailing, T_pkg_open, T_pkg_quotes}

PackageTrees ==
    { pre \o <<Blob(S_package_json, t)>> \o post :
        pre \in {<<>>, <<Blob(S_yarn_lock, T_plain)>>},
        t \in MalformedTexts \cup {T_pkg_react},
        post \in {<<>>, <<Blob(S_angular_json, T_plain)>>,
                  <<Blob(S_next_config_js, T_plain), Blob(S_pnpm_lock_yaml, T_plain)>>} }

PackageRepos ==
    { RepoNode("j", "PUBLIC", FALSE, Ago(1, 0), <<Edge("JavaScript", 10)>>, 10, TreeObj(t)) :
        t \in PackageTrees }

NextRepos ==
    { RepoNode("k", "PUBLIC", FALSE, Ago(1, 0), <<Edge("JavaScript", 10)>>, 10,
               TreeObj(<<Blob(S_package_json, T_pkg_react)>>)),
      RepoNode("k", "PRIVATE", FALSE, Ago(1, 0), <<Edge("Python", 10)>>, 10,
               TreeObj(<<Blob(S_requirements_txt, T_req_flask)>>)) }

InitPackages == InitOn({<<r1, r2>> : r1 \in PackageRepos, r2 \in NextRepos})

SpecPackages == InitPackages /\ [][Next]_vars

\* the root has a package.json with text, and this text is no JSON
MalformedPackageJson(repo) ==
    /\ ~repo.object.null
    /\ \E k \in 1..Len(repo.object.entries) :
          repo.object.entries[k].name = S_package_json /\ HasText(repo.object.entries[k])
    /\ \A k \in 1..Len(repo.object.entries) :
          (repo.object.entries[k].name = S_package_json /\ HasText(repo.object.entries[k]))
             => ~json_loads(repo.object.entries[k].object.text).ok

\* the names at the root of a repository
RootNames(repo) == {repo.object.entries[k].name : k \in 1..Len(repo.object.entries)}

\* the labels the lockfiles and the framework configuration files stand for
FileFrameworks(names) ==
    (IF S_angular_json \in names THEN {"angular"} ELSE {})
    \cup (IF S_vue_config_js \in names THEN {"vue"} ELSE {})
    \cup (IF S_svelte_config_js \in names THEN {"svelte"} ELSE {})
    \cup (IF S_next_config_js \in names THEN {"react", "next.js"} ELSE {})
    \cup (IF S_gatsby_config_js \in names THEN {"react", "gatsby"} ELSE {})

FileManagers(names) ==
    (IF S_yarn_lock \in names THEN {"yarn"} ELSE {})
    \cup (IF S_pnpm_lock_yaml \in names THEN {"pnpm"} ELSE {})

(***************************************************************************)
(* C17: a package.json that is no JSON drops nothing: every repository     *)
(* processed has its record; the record of a JavaScript repository with    *)
(* such a file has dependencies [], and its frameworks and package         *)
(* managers are exactly those of the lockfiles and framework configuration *)
(* files around it; the repository after it has the record it has alone    *)
(* (a valid package.json with react gives [react], react and npm).         *)
(***************************************************************************)
C17_MalformedPackageJson ==
    /\ Len(all_repos) = Len(Processed)
    /\ \A k \in 1..Len(all_repos) :
          LET repo == Processed[k]
              deps == all_repos[k].javascript_dependencies
          IN  /\ all_repos[k].name = repo.name
              /\ ("JavaScript" \in EdgeNames(repo) /\ MalformedPackageJson(repo))
                    => /\ ~deps.null
                       /\ deps.dependencies = <<>>
                       /\ deps.dev_dependencies = <<>>
                       /\ Range(deps.frameworks) = FileFrameworks(RootNames(repo))
                       /\ Range(deps.package_manager) = FileManagers(RootNames(repo))
              /\ ( /\ "JavaScript" \in EdgeNames(repo)
                   /\ repo.object.entries = <<Blob(S_package_json, T_pkg_react)>> )
                    => /\ deps.dependencies = <<I_react>>
                       /\ deps.frameworks = <<"react">>
                       /\ deps.package_manager = <<"npm">>
              /\ "Python" \in EdgeNames(repo)
                    => all_repos[k].python_dependencies.requirements
                          = <<<<"f", "l", "a", "s", "k">>>>

\* the run is over: the first repository had a yarn.lock, a package.json
\* with a trailing comma and an angular.json, and is recorded with the two
\* labels and no dependency; the JavaScript repository after it has react
C17_Witness ==
    /\ pc = "done"
    /\ Len(all_repos) = 2
    /\ org[1].object.entries = <<Blob(S_yarn_lock, T_plain),
                                 Blob(S_package_json, T_pkg_trailing),
                                 Blob(S_angular_json, T_plain)>>
    /\ all_repos[1].javascript_dependencies.dependencies = <<>>
    /\ all_repos[1].javascript_dependencies.frameworks = <<"angular">>
    /\ all_repos[1].javascript_dependencies.package_manager = <<"yarn">>
    /\ all_repos[2].javascript_dependencies.dependencies = <<I_react>>

\* the sum of the percentages of a languages list
RECURSIVE PercentageSum(_)
PercentageSum(languages) ==
    IF languages = <<>> THEN Rat(0, 1)
    ELSE RatAdd(Head(languages).percentage, PercentageSum(Tail(languages)))

C18_NoEdges ==
    /\ pc = "done"
    /\ Len(all_repos) = 1
    /\ org[1].languages.edges = <<>>
    /\ all_repos[1].languages = <<>>

(***************************************************************************)
(* C19: the six activity counts of the document and metadata.last_updated  *)
(* are those of one reading of the clock, taken while the document was     *)
(* built: there is an instant `now` for which every count holds exactly    *)
(* the records inside its window at `now`, and last_updated is the day of  *)
(* `now`.                                                                  *)
(***************************************************************************)
C19_SingleNow ==
    file # <<>> =>
        \E now \in report_start..clock :
            /\ \A q \in 1..Len(Passes) :
                  hits[q] = {k \in 1..Len(all_repos) :
                                WindowCond(all_repos[k], Passes[q], now)}
            /\ file[1].metadata.last_updated = DateOf(now)

\* the entries of language L in the languages lists of the records with the
\* given is_archived flag
RECURSIVE EntriesOf(_, _, _)
EntriesOf(records, archived, lang) ==
    IF records = <<>> THEN <<>>
    ELSE (IF Head(records).is_archived = archived
          THEN SelectSeq(Head(records).languages, LAMBDA l : l.name = lang)
          ELSE <<>>)
         \o EntriesOf(Tail(records), archived, lang)

RECURSIVE SizeSum(_)
SizeSum(entries) ==
    IF entries = <<>> THEN 0 ELSE Head(entries).size + SizeSum(Tail(entries))

(***************************************************************************)
(* C20: in the document, for each archival partition, the languages of     *)
(* language_statistics are those of the records of the partition, and for  *)
(* each language repo_count is the number of these records that list it,   *)
(* total_size the sum of its sizes and average_percentage the mean of its  *)
(* percentages in them: a repository without a record has no part in them. *)
(***************************************************************************)
C20_StatisticsFromRecords ==
    Len(file) = 1 =>
        \A archived \in BOOLEAN :
            LET records == file[1].repositories
                stats == IF archived THEN file[1].language_statistics_archived
                         ELSE file[1].language_statistics_unarchived
            IN  /\ DOMAIN stats =
                      {lang \in LanguageNames \cup {"HCL", "Dockerfile"} :
                          EntriesOf(records, archived, lang) # <<>>}
                /\ \A lang \in DOMAIN stats :
                      LET entries == EntriesOf(records, archived, lang) IN
                      /\ stats[lang].repo_count = Len(entries)
                      /\ stats[lang].total_size = SizeSum(entries)
                      /\ Len(entries) > 0 =>
                            stats[lang].average_percentage =
                               Round3(Rat(PercentageSum(entries).num,
                                          PercentageSum(entries).den * Len(entries)))

(***************************************************************************)
(* Organisations served in one to three pages, to follow the loop over     *)
(* the pages to its end.  The statements of the function are executed one  *)
(* after the other without a pause that lasts for ever; nothing is assumed *)
(* of the clock.                                                           *)
(***************************************************************************)
PageNames == <<"p1", "p2", "p3", "p4", "p5", "p6", "p7", "p8">>

\* n repositories; with `bad` the second one has a file named .github, which
\* makes its classification raise
PagedOrg(n, bad) ==
    [k \in 1..n |->
        RepoNode(PageNames[k], "PUBLIC", FALSE, Ago(1, 0), <<Edge("Python", 10)>>, 10,
                 IF bad /\ k = 2 THEN TreeObj(<<Blob(S_dot_github, T_plain)>>)
                 ELSE NullObj)]

PagedOrgs == {PagedOrg(n, bad) : n \in 0..(2 * BatchSize + 1), bad \in BOOLEAN}

InitPages == InitOn(PagedOrgs)

\* a statement of get_repository_technologies
Step == Request \/ ClassifyRepo \/ EndPage \/ WindowStep \/ WriteOutput

SpecPages == InitPages /\ [][Next]_vars /\ WF_vars(Step)

\* the number of pages the transport serves: up to the failing one, or all
PagesServed == IF fail_at = 0 THEN NumPages(org) ELSE fail_at

(***************************************************************************)
(* C21: with N pages served (the N-th the last one, or a failed response)  *)
(* the function makes at most N requests, no two of them with the same     *)
(* cursor, every pass of the loop over the pages makes a request, the loop *)
(* is left when its condition is false, and the run reaches the end of the *)
(* step that writes the document.                                          *)
(***************************************************************************)
C21_Terminates ==
    /\ [](/\ Len(requests) <= PagesServed
          /\ Len(responses) = Len(requests)
          /\ \A a, b \in 1..Len(requests) : a # b => requests[a] # requests[b])
    /\ [][ /\ (pc = "request" /\ has_next_page)
                 => Len(requests') = Len(requests) + 1
           /\ (pc = "request" /\ ~has_next_page) => pc' = "windows" ]_vars
    /\ <>(pc = "done" /\ Len(file) = 1)

\* a run over three pages, the second repository dropped, that made three
\* requests and wrote the document
C21_Witness ==
    /\ pc = "done"
    /\ Len(file) = 1
    /\ fail_at = 0
    /\ NumPages(org) = 3
    /\ Len(requests) = 3
    /\ Len(all_repos) = Len(org) - 1

(***************************************************************************)
(* Organisations of up to three repositories, archived or not, that share  *)
(* languages in shares whose mean has more than three decimals.            *)
(***************************************************************************)
FoldLanguages ==
    { <<>>,
      <<Edge("Python", 5)>>,
      <<Edge("HTML", 2), Edge("Python", 1)>> }

FoldRepos ==
    { RepoNode("f", "PUBLIC", arch, Ago(1, 0), es, SumSizes(es), obj) :
        arch \in BOOLEAN, es \in FoldLanguages,
        obj \in {NullObj, TreeObj(<<Blob(S_dot_github, T_plain)>>)} }

FoldOrgs ==
    SeqsUpTo(FoldRepos, 2)
    \cup { <<a, b, c>> : a, b, c \in {r \in FoldRepos : r.object.null /\ ~r.isArchived} }

InitFold == InitOn(FoldOrgs)

SpecFold == InitFold /\ [][Next]_vars

\* every key of an accumulator has repo_count >= 1
CountsPositive(stats_dict) ==
    \A lang \in DOMAIN stats_dict : stats_dict[lang].repo_count >= 1

\* `after` is `before` with one repository's edges added
EdgesAdded(before, after, repo) ==
    /\ DOMAIN after = DOMAIN before \cup EdgeNames(repo)
    /\ \A lang \in DOMAIN after :
          LET edges == SelectSeq(repo.languages.edges, LAMBDA e : e.name = lang)
              was == IF lang \in DOMAIN before
                     THEN before[lang]
                     ELSE [repo_count |-> 0, total_size |-> 0]
          IN  /\ after[lang].repo_count = was.repo_count + Len(edges)
              /\ after[lang].total_size = was.total_size + SumSizes(edges)

\* a step folds the edges of the repository at hand into the accumulator of
\* its isArchived flag and leaves the other one as it is; no other step
\* touches either
FoldsOneAccumulator ==
    IF pc = "classify" /\ i <= Len(data.nodes)
    THEN IF data.nodes[i].isArchived
         THEN /\ language_stats' = language_stats
              /\ EdgesAdded(archived_language_stats, archived_language_stats',
                            data.nodes[i])
         ELSE /\ archived_language_stats' = archived_language_stats
              /\ EdgesAdded(language_stats, language_stats', data.nodes[i])
    ELSE /\ language_stats' = language_stats
         /\ archived_language_stats' = archived_language_stats

\* the reported averages of an accumulator are, in thousandths, exactly its
\* percentage sums divided by its repo_counts
AveragesExact(stats_dict, averages) ==
    /\ DOMAIN averages = DOMAIN stats_dict
    /\ \A lang \in DOMAIN stats_dict :
          /\ averages[lang].repo_count = stats_dict[lang].repo_count
          /\ averages[lang].average_percentage
                * stats_dict[lang].average_percentage.den * stats_dict[lang].repo_count
             = 1000 * stats_dict[lang].average_percentage.num

\* the reported averages are these quotients to the nearest thousandth
AveragesRounded(stats_dict, averages) ==
    /\ DOMAIN averages = DOMAIN stats_dict
    /\ \A lang \in DOMAIN stats_dict :
          LET scaled == averages[lang].average_percentage
                           * stats_dict[lang].average_percentage.den
                           * stats_dict[lang].repo_count
              exact == 1000 * stats_dict[lang].average_percentage.num
              half == stats_dict[lang].average_percentage.den
                         * stats_dict[lang].repo_count
          IN  /\ averages[lang].repo_count = stats_dict[lang].repo_count
              /\ 2 * (scaled - exact) <= half
              /\ 2 * (exact - scaled) <= half

(***************************************************************************)
(* C22 as stated: every language key of either accumulator has            *)
(* repo_count >= 1 at every step of the fold, a repository's edges go to   *)
(* the accumulator of its is_archived flag and leave the other unchanged,  *)
(* and the average_percentage of the document is the accumulated           *)
(* percentage sum divided by repo_count.                                   *)
(***************************************************************************)
C22_AverageIsQuotient ==
    /\ [](/\ CountsPositive(language_stats)
          /\ CountsPositive(archived_language_stats)
          /\ Len(file) = 1 =>
                /\ AveragesExact(language_stats,
                                 file[1].language_statistics_unarchived)
                /\ AveragesExact(archived_language_stats,
                                 file[1].language_statistics_archived))
    /\ [][FoldsOneAccumulator]_vars

(***************************************************************************)
(* C22, amended: as above, the average_percentage of the document being    *)
(* the accumulated percentage sum divided by repo_count and rounded to     *)
(* three decimals.                                                         *)
(***************************************************************************)
C22_AverageIsRoundedQuotient ==
    /\ [](/\ CountsPositive(language_stats)
          /\ CountsPositive(archived_language_stats)
          /\ Len(file) = 1 =>
                /\ AveragesRounded(language_stats,
                                   file[1].language_statistics_unarchived)
                /\ AveragesRounded(archived_language_stats,
                                   file[1].language_statistics_archived))
    /\ [][FoldsOneAccumulator]_vars

\* a document of three unarchived repositories with Python at 100, 100 and
\* 33.333... per cent: the mean 77.777... is reported as 77.778
C22_Witness ==
    /\ pc = "done"
    /\ Len(file) = 1
    /\ Len(all_repos) = 3
    /\ DOMAIN language_stats = {"Python", "HTML"}
    /\ language_stats["Python"].repo_count = 3
    /\ language_stats["Python"].average_percentage = Rat(700, 3)
    /\ file[1].language_statistics_unarchived["Python"].average_percentage = 77778
    /\ file[1].language_statistics_unarchived["HTML"].repo_count = 1
    /\ archived_language_stats = <<>>

====
